---- MODULE Spec2Model ----
(***************************************************************************)
(* luminair-service: schema registry loading, table derivation and the     *)
(* migration engine (crates common and migration).                         *)
(*                                                                         *)
(* Strings are sequences of one-character strings, so that sanitizing,     *)
(* normalizing and the format!() concatenations that build table, column   *)
(* and constraint names are computed as the code computes them.            *)
(***************************************************************************)
EXTENDS Integers, Sequences, FiniteSets, TLC

VARIABLES
    files,            \* the entries of the schema directory (input, fixed)
    pc,               \* position of the process
    registry,         \* DocumentsAdapter.documents: the loaded documents
    result,           \* what the last finished migrate() run returned
    needed_schema,    \* migrate(): local needed_schema
    actual_schema,    \* migrate(): local actual_schema
    migration_steps,  \* migrate(): local migration_steps
    step_i,           \* apply_migration_steps: index of the step being applied
    ddl_j,            \* execute_in_transaction: index of the next query of the script
    tx,               \* the open transaction's view of the tables, or NoTx
    db,               \* the committed tables of the database
    out,              \* stdout: what execute_in_transaction printed in this run
    raw,              \* the string an identifier is constructed from
    ident,            \* what DocumentTypeId::try_new / AttributeId::try_new returned
    norm,             \* what normalized() returned for the identifier
    document_type,    \* the document type (schema) a query is built for
    derived,          \* the DocumentTables derived from document_type
    main_query,       \* what main_query_builder(document_type) returned
    related_query,    \* what related_query_builder(..) returned for a self-relation
    count_sql,        \* the table count() selects from
    row,              \* a row of a fetch, as the database returned it
    decoded,          \* what row_to_document(row, schema) returned
    svc_pc,           \* where the service's main() is
    app_state,        \* AppState: the registry the handlers read
    store,            \* the rows of the database the service is connected to
    request,          \* the HTTP request being handled
    handler,          \* the handler's position and locals
    executed,         \* the SQL statements executed for the request
    response,         \* the handler's result
    where_conditions, \* QueryBuilder.where_conditions of the builder being composed
    built,            \* what QueryBuilder::build returned
    types,            \* DocumentTypesRegistryAdapter.types, a HashSet of document types
    reg_pc,           \* whether DocumentTypesRegistryAdapter::load is still inserting
    got,              \* the last get(id) call and what it returned
    yielded,          \* what the last iterate() yielded, in order
    schema_files,     \* the schema directory table derivation is run for
    loaded_documents, \* the registry load_documents returned for schema_files
    needed_tables,    \* what documents_into_tables returned for the registry
    instance,         \* a DocumentInstance: content.publication_state and audit.version
    last_call,        \* the last publish() / unpublish() call: the instance before it and its result
    main_rows,        \* the rows of the main query
    related_result_sets,\* attribute id -> the rows of its relation query
    grouped,          \* attribute id -> the grouped related rows, once grouped
    enriched          \* the documents join_relations returned, once joined

migration_vars == <<files, pc, registry, result, needed_schema, actual_schema,
                    migration_steps, step_i, ddl_j, tx, db, out>>

id_vars == <<raw, ident, norm>>

query_vars == <<document_type, derived, main_query, related_query, count_sql>>

decode_vars == <<row, decoded>>

service_vars == <<svc_pc, app_state, store, request, handler, executed, response>>

sql_vars == <<where_conditions, built>>

registry_vars == <<types, reg_pc, got, yielded>>

derive_vars == <<schema_files, loaded_documents, needed_tables>>

lifecycle_vars == <<instance, last_call>>

join_vars == <<main_rows, related_result_sets, grouped, enriched>>

\* what the migration process leaves alone
outside_migration == <<id_vars, query_vars, decode_vars, service_vars, sql_vars, registry_vars, derive_vars, lifecycle_vars, join_vars>>

\* what identifier construction leaves alone
outside_id == <<migration_vars, query_vars, decode_vars, service_vars, sql_vars, registry_vars, derive_vars, lifecycle_vars, join_vars>>

\* what row decoding leaves alone
outside_decode == <<migration_vars, id_vars, query_vars, service_vars, sql_vars, registry_vars, derive_vars, lifecycle_vars, join_vars>>

\* what query building leaves alone
outside_query == <<migration_vars, id_vars, decode_vars, service_vars, sql_vars, registry_vars, derive_vars, lifecycle_vars, join_vars>>

\* what the service leaves alone: its main() never calls the migration
outside_service == <<migration_vars, id_vars, query_vars, decode_vars, sql_vars, registry_vars, derive_vars, lifecycle_vars, join_vars>>

outside_sql == <<migration_vars, id_vars, query_vars, decode_vars, service_vars, registry_vars, derive_vars, lifecycle_vars, join_vars>>

outside_registry == <<migration_vars, id_vars, query_vars, decode_vars, service_vars, sql_vars, derive_vars, lifecycle_vars, join_vars>>

outside_derive == <<migration_vars, id_vars, query_vars, decode_vars, service_vars, sql_vars, registry_vars, lifecycle_vars, join_vars>>

outside_lifecycle == <<migration_vars, id_vars, query_vars, decode_vars, service_vars, sql_vars, registry_vars, derive_vars, join_vars>>

outside_join == <<migration_vars, id_vars, query_vars, decode_vars, service_vars, sql_vars, registry_vars, derive_vars, lifecycle_vars>>

vars == <<migration_vars, id_vars, query_vars, decode_vars, service_vars, sql_vars, registry_vars, derive_vars, lifecycle_vars, join_vars>>

(***************************************************************************)
(* Bounds of the model.                                                    *)
(***************************************************************************)
MaxFiles == 2
MaxIdLen == 3

(***************************************************************************)
(* Characters and strings.                                                 *)
(***************************************************************************)
ALPHA_LOWER == <<"a","b","c","d","e","f","g","h","i","j","k","l","m",
                 "n","o","p","q","r","s","t","u","v","w","x","y","z">>
ALPHA_UPPER == <<"A","B","C","D","E","F","G","H","I","J","K","L","M",
                 "N","O","P","Q","R","S","T","U","V","W","X","Y","Z">>
DIGITS == {"0","1","2","3","4","5","6","7","8","9"}

Range(s) == {s[i] : i \in DOMAIN s}

to_lowercase_char(c) ==
    IF \E i \in DOMAIN ALPHA_UPPER : ALPHA_UPPER[i] = c
    THEN ALPHA_LOWER[CHOOSE i \in DOMAIN ALPHA_UPPER : ALPHA_UPPER[i] = c]
    ELSE c

to_lowercase(s) == [i \in DOMAIN s |-> to_lowercase_char(s[i])]

\* char::is_whitespace, for the characters of the inputs
WHITESPACE == {" ", "\t", "\n"}

RECURSIVE trim_start(_)
trim_start(s) == IF s # <<>> /\ Head(s) \in WHITESPACE THEN trim_start(Tail(s)) ELSE s

RECURSIVE trim_end(_)
trim_end(s) ==
    IF s # <<>> /\ s[Len(s)] \in WHITESPACE THEN trim_end(SubSeq(s, 1, Len(s) - 1)) ELSE s

trim(s) == trim_end(trim_start(s))

starts_with(s, prefix) ==
    Len(s) >= Len(prefix) /\ SubSeq(s, 1, Len(prefix)) = prefix

\* str::replace for a one-character pattern
replace(s, from, to) == [i \in DOMAIN s |-> IF s[i] = from THEN to ELSE s[i]]

RECURSIVE join(_, _)
join(parts, sep) ==
    IF parts = <<>> THEN <<>>
    ELSE IF Len(parts) = 1 THEN parts[1]
    ELSE parts[1] \o sep \o join(Tail(parts), sep)

RESERVED_PREFIX == <<"l","u","m","i","n","a","i","r","_">>
LEN_CHAR_MAX == 20

(***************************************************************************)
(* Identifiers: DocumentId / AttributeId (nutype: sanitize, then validate) *)
(***************************************************************************)
ELIGIBLE_SYMBOLS == Range(ALPHA_LOWER) \cup Range(ALPHA_UPPER) \cup DIGITS \cup {"_", "/", "-"}

is_eligible_id(id) ==
    /\ ~starts_with(id, RESERVED_PREFIX)
    /\ id # <<>>
    /\ \A i \in DOMAIN id : id[i] \in ELIGIBLE_SYMBOLS

sanitize(input) == to_lowercase(trim(input))

Err == [ok |-> FALSE, value |-> <<>>]
Ok(v) == [ok |-> TRUE, value |-> v]

\* mutant: the value is validated and stored as given, not sanitized
try_new_unsanitized(input) ==
    IF input # <<>> /\ Len(input) <= LEN_CHAR_MAX /\ is_eligible_id(input) THEN Ok(input) ELSE Err

try_new(input) ==
    LET s == sanitize(input)
    IN  IF s # <<>> /\ Len(s) <= LEN_CHAR_MAX /\ is_eligible_id(s) THEN Ok(s) ELSE Err

\* mutant: the hyphens are removed
RECURSIVE normalized_drops_hyphens(_)
normalized_drops_hyphens(id) ==
    IF id = <<>> THEN <<>>
    ELSE (IF Head(id) = "-" THEN <<>> ELSE <<Head(id)>>) \o normalized_drops_hyphens(Tail(id))

normalized(id) == replace(id, "-", "_")

(***************************************************************************)
(* String literals of the program and of the schema files.                 *)
(***************************************************************************)
DOCUMENT_ID_FIELD_NAME == <<"d","o","c","u","m","e","n","t","_","i","d">>
RELATION_ID_FIELD_NAME == <<"r","e","l","a","t","i","o","n","_","i","d">>
CREATED_FIELD_NAME == <<"c","r","e","a","t","e","d","_","a","t">>
UPDATED_FIELD_NAME == <<"u","p","d","a","t","e","d","_","a","t">>
PUBLISHED_FIELD_NAME == <<"p","u","b","l","i","s","h","e","d","_","a","t">>
LOCALE_FIELD_NAME == <<"l","o","c","a","l","e">>
LOCALIZATION_SUFFIX == <<"_","l","o","c","a","l","i","z","a","t","i","o","n">>
RELATION_SUFFIX == <<"_","r","e","l","a","t","i","o","n">>
ID_SUFFIX == <<"_","i","d">>
ORDER_SUFFIX == <<"_","o","r","d","e","r">>
FKEY_SUFFIX == <<"_","f","k","e","y">>
IDX_SUFFIX == <<"_","i","d","x">>
GEOMETRY_COLUMNS == <<"g","e","o","m","e","t","r","y","_","c","o","l","u","m","n","s">>
SPATIAL_REF_SYS == <<"s","p","a","t","i","a","l","_","r","e","f","_","s","y","s">>

S_article == <<"a","r","t","i","c","l","e">>
S_articles == <<"a","r","t","i","c","l","e","s">>
S_author == <<"a","u","t","h","o","r">>
S_authors == <<"a","u","t","h","o","r","s">>
S_page == <<"p","a","g","e">>
S_pages == <<"p","a","g","e","s">>
S_title == <<"t","i","t","l","e">>
S_slug == <<"s","l","u","g">>
S_name == <<"n","a","m","e">>
S_views == <<"v","i","e","w","s">>
S_parent == <<"p","a","r","e","n","t">>
S_links == <<"l","i","n","k","s">>
S_legacy == <<"l","e","g","a","c","y">>
S_en == <<"e","n">>
S_ro == <<"r","o">>
S_Article_raw == <<" ","A","r","t","i","c","l","e"," ">>
S_bad_id == <<"m","y"," ","i","d">>
S_Title_raw == <<" ","T","i","t","l","e"," ">>

(***************************************************************************)
(* Schema files: the DocumentRecord each *.json file deserializes into.    *)
(* A directory entry that is not a *.json file has is_json = FALSE.        *)
(***************************************************************************)
NoOptions == [present |-> FALSE, draft_and_publish |-> FALSE, localizations |-> <<>>]
Options(dp, locs) == [present |-> TRUE, draft_and_publish |-> dp, localizations |-> locs]

FieldRecord(id, type, unique, required, localized) ==
    [id |-> id, kind |-> "Field", attribute_type |-> type, unique |-> unique,
     required |-> required, localized |-> localized,
     relation_type |-> "None", target |-> <<>>, ordering |-> FALSE]

RelationRecord(id, relation_type, target, ordering) ==
    [id |-> id, kind |-> "Relation", attribute_type |-> "None", unique |-> FALSE,
     required |-> FALSE, localized |-> FALSE,
     relation_type |-> relation_type, target |-> target, ordering |-> ordering]

DocumentRecord(id, singular, plural, options, attributes) ==
    [is_json |-> TRUE, id |-> id, singular_name |-> singular, plural_name |-> plural,
     options |-> options, attributes |-> attributes]

F_article ==
    DocumentRecord(S_article, S_article, S_articles, NoOptions,
        << FieldRecord(S_title, "Text", FALSE, TRUE, FALSE),
           FieldRecord(S_slug, "Uid", TRUE, FALSE, FALSE) >>)

F_author ==
    DocumentRecord(S_author, S_author, S_authors, NoOptions,
        << RelationRecord(S_articles, "HasMany", S_article, FALSE) >>)

F_page ==
    DocumentRecord(S_page, S_page, S_pages, Options(TRUE, <<S_en, S_ro>>),
        << FieldRecord(S_name, "Text", FALSE, TRUE, TRUE),
           FieldRecord(S_views, "Integer", FALSE, FALSE, FALSE),
           RelationRecord(S_parent, "BelongsToOne", S_page, FALSE),
           RelationRecord(S_links, "HasOne", S_page, TRUE) >>)

\* a second file whose id sanitizes to "article"
\* its two attribute ids, "title" and " Title ", sanitize to the same AttributeId
F_article_again ==
    DocumentRecord(S_Article_raw, S_article, S_articles, Options(TRUE, <<>>),
        << FieldRecord(S_title, "Text", FALSE, FALSE, FALSE),
           RelationRecord(S_Title_raw, "BelongsToOne", S_article, FALSE) >>)

F_spatial == DocumentRecord(SPATIAL_REF_SYS, SPATIAL_REF_SYS, SPATIAL_REF_SYS, NoOptions, <<>>)

F_bad == DocumentRecord(S_bad_id, S_page, S_pages, NoOptions, <<>>)

F_readme == [DocumentRecord(S_bad_id, S_bad_id, S_bad_id, NoOptions, <<>>) EXCEPT !.is_json = FALSE]

FileUniverse == {F_article, F_author, F_page, F_article_again, F_spatial, F_bad, F_readme}

(***************************************************************************)
(* Document model and its construction from a DocumentRecord.              *)
(***************************************************************************)
LOCALIZATION_LEN == 2
VALID_LOCALIZATIONS == {<<"r","u">>, <<"r","o">>, <<"e","n">>}

LocalizationId_try_new(input) ==
    LET s == sanitize(input)
    IN  IF /\ s # <<>>
           /\ Len(s) = LOCALIZATION_LEN
           /\ \E v \in VALID_LOCALIZATIONS : starts_with(s, v)
        THEN Ok(s) ELSE Err

is_owning(relation_type) == relation_type \in {"HasOne", "HasMany"}

is_inverse(relation_type) == relation_type \in {"BelongsToOne", "BelongsToMany"}

\* TryFrom<AttributeRecord> for Attribute
Attribute_try_from(rec) ==
    LET id == try_new(rec.id)
        target == try_new(rec.target)
    IN  IF ~id.ok THEN Err
        ELSE IF rec.kind = "Relation" /\ ~target.ok THEN Err
        ELSE Ok([rec EXCEPT !.id = id.value,
                            !.target = IF rec.kind = "Relation" THEN target.value ELSE <<>>])

\* TryFrom<DocumentOptionsRecord> for DocumentOptions
DocumentOptions_try_from(rec) ==
    LET locs == [i \in DOMAIN rec.localizations |-> LocalizationId_try_new(rec.localizations[i])]
    IN  IF \E i \in DOMAIN locs : ~locs[i].ok THEN Err
        ELSE Ok([rec EXCEPT !.localizations = [i \in DOMAIN locs |-> locs[i].value]])

\* TryFrom<DocumentRecord> for Document
Document_try_from(rec) ==
    LET id == try_new(rec.id)
        singular_name == try_new(rec.singular_name)
        plural_name == try_new(rec.plural_name)
        options == IF rec.options.present THEN DocumentOptions_try_from(rec.options)
                   ELSE Ok(NoOptions)
        attributes == [i \in DOMAIN rec.attributes |-> Attribute_try_from(rec.attributes[i])]
    IN  IF \/ ~id.ok \/ ~singular_name.ok \/ ~plural_name.ok \/ ~options.ok
           \/ \E i \in DOMAIN attributes : ~attributes[i].ok
        THEN Err
        ELSE Ok([id |-> id.value,
                 info |-> [singular_name |-> singular_name.value,
                           plural_name |-> plural_name.value],
                 options |-> options.value,
                 attributes |-> [i \in DOMAIN attributes |-> attributes[i].value]])

has_localization(document) ==
    document.options.present /\ document.options.localizations # <<>>

has_draft_and_publish(document) ==
    document.options.present /\ document.options.draft_and_publish

(***************************************************************************)
(* Schema registry: DocumentsAdapter                                       *)
(***************************************************************************)
\* HashSet<&Document>::insert, Document hashed and compared by id:
\* an element equal to one already held is not inserted
HashSet_insert(set, document) ==
    IF \E d \in set : d.id = document.id THEN set ELSE set \cup {document}

\* HashSet::get(&DocumentId)
get_document(documents, id) ==
    IF \E d \in documents : d.id = id
    THEN Ok(CHOOSE d \in documents : d.id = id)
    ELSE Err

\* the loop of DocumentsAdapter::load over the directory entries, in the
\* order read_dir yields them
RECURSIVE load_entries(_, _)
load_entries(entries, documents) ==
    IF entries = <<>> THEN Ok(documents)
    ELSE LET entry == Head(entries)
             document == Document_try_from(entry)
         IN  IF ~entry.is_json THEN load_entries(Tail(entries), documents)
             ELSE IF ~document.ok THEN Err
             ELSE load_entries(Tail(entries), HashSet_insert(documents, document.value))

DocumentsAdapter_load(entries) == load_entries(entries, {})

\* lib.rs load_documents: the registry is what DocumentsAdapter::load returned
load_documents(entries) == DocumentsAdapter_load(entries)

\* DocumentsAdapter::initiate, the linking pass: fails on the first relation
\* whose target is not a loaded document
initiate(documents) ==
    IF \E d \in documents : \E i \in DOMAIN d.attributes :
           /\ d.attributes[i].kind = "Relation"
           /\ ~get_document(documents, d.attributes[i].target).ok
    THEN Err ELSE Ok(documents)

Permutations_of(S) ==
    {p \in [1..Cardinality(S) -> S] : \A x \in S : \E i \in DOMAIN p : p[i] = x}

(***************************************************************************)
(* PersistedDocument: the persistence structure of a document              *)
(***************************************************************************)
EmptyMap == [k \in {} |-> k]

\* HashMap::insert: a later entry of the same key replaces the earlier one
HashMap_insert(map, key, value) ==
    [k \in DOMAIN map \cup {key} |-> IF k = key THEN value ELSE map[k]]

TableDetails_from(document) ==
    LET main_table_name == normalized(document.id)
    IN  [main_table_name |-> main_table_name,
         localization_table_name |-> main_table_name \o LOCALIZATION_SUFFIX,
         relation_column_name |-> normalized(document.info.singular_name)]

\* the panic!("Don't found document for relation ...") of PersistedDocument::new
PersistedDocument_panics(document, documents) ==
    \E i \in DOMAIN document.attributes :
        /\ document.attributes[i].kind = "Relation"
        /\ ~get_document(documents, document.attributes[i].target).ok

RECURSIVE persisted_attributes(_, _, _, _)
persisted_attributes(attributes, details, fields, relations) ==
    IF attributes = <<>> THEN [fields |-> fields, relations |-> relations]
    ELSE LET attribute == Head(attributes)
             id == normalized(attribute.id)
         IN  IF attribute.kind = "Field"
             THEN persisted_attributes(Tail(attributes), details,
                      HashMap_insert(fields, attribute.id,
                          [attribute_type |-> attribute.attribute_type,
                           unique |-> attribute.unique,
                           required |-> attribute.required,
                           localized |-> attribute.localized,
                           table_column_name |-> id]),
                      relations)
             ELSE persisted_attributes(Tail(attributes), details, fields,
                      HashMap_insert(relations, attribute.id,
                          [relation_type |-> attribute.relation_type,
                           target |-> attribute.target,
                           ordering |-> attribute.ordering,
                           relation_table_name |->
                               details.main_table_name \o <<"_">> \o id \o RELATION_SUFFIX]))

\* PersistedDocument::new, for a document all of whose targets are found
PersistedDocument_new(document) ==
    LET details == TableDetails_from(document)
        maps == persisted_attributes(document.attributes, details, EmptyMap, EmptyMap)
    IN  [document_ref |-> document, details |-> details,
         fields |-> maps.fields, relations |-> maps.relations]

\* Documents::get_persisted_document_by_ref
get_persisted_document_by_ref(documents, target) ==
    PersistedDocument_new(get_document(documents, target).value)

(***************************************************************************)
(* Table derivation (migration/src/domain/mod.rs)                          *)
(***************************************************************************)
NoLength == 0
NoDefault == ""

Column_new(name, column_type, column_length, not_null, unique, default_value) ==
    [name |-> name, column_type |-> column_type, column_length |-> column_length,
     not_null |-> not_null, unique |-> unique, primary_key |-> FALSE,
     default_value |-> default_value]

Column_primary_key(name, column_type, column_length) ==
    [name |-> name, column_type |-> column_type, column_length |-> column_length,
     not_null |-> FALSE, unique |-> FALSE, primary_key |-> TRUE,
     default_value |-> NoDefault]

ForeignKeyConstraint_new(table_name, column_name, referenced_table_name, referenced_column_name) ==
    [table_name |-> table_name, column_name |-> column_name,
     referenced_table_name |-> referenced_table_name,
     referenced_column_name |-> referenced_column_name]

Index_new(table_name, columns, unique) ==
    [table_name |-> table_name, columns |-> columns, unique |-> unique]

Table_new(name, columns, foreign_keys, indexes) ==
    [name |-> name, columns |-> columns, foreign_keys |-> foreign_keys, indexes |-> indexes]

\* the AttributeType -> ColumnType match of handle_document_fields
column_type_of(attribute_type) ==
    CASE attribute_type = "Uid" -> "Text"
      [] attribute_type = "Uuid" -> "Uuid"
      [] attribute_type = "Text" -> "Text"
      [] attribute_type = "Integer" -> "Integer"
      [] attribute_type = "Decimal" -> "Decimal"
      [] attribute_type = "Date" -> "Date"
      [] attribute_type = "DateTime" -> "TimestampTZ"
      [] attribute_type = "Boolean" -> "Boolean"

\* handle_document_fields: the columns pushed to the main builder
\* (localized = FALSE) or to the localization builder (localized = TRUE),
\* in the order document.fields.iter() yields the fields
RECURSIVE handle_document_fields(_, _, _)
handle_document_fields(document, field_order, localized) ==
    IF field_order = <<>> THEN <<>>
    ELSE LET persisted == document.fields[Head(field_order)]
             column == Column_new(persisted.table_column_name,
                                  column_type_of(persisted.attribute_type),
                                  NoLength, persisted.required, persisted.unique, NoDefault)
             rest == handle_document_fields(document, Tail(field_order), localized)
         IN  IF persisted.localized = localized THEN <<column>> \o rest ELSE rest

\* MainTableBuilder::new, the pushes, MainTableBuilder::into
MainTableBuilder(document, pushed) ==
    LET columns == <<Column_primary_key(DOCUMENT_ID_FIELD_NAME, "Serial", NoLength)>>
                   \o pushed
                   \o <<Column_new(CREATED_FIELD_NAME, "TimestampTZ", NoLength, TRUE, FALSE, "now()"),
                        Column_new(UPDATED_FIELD_NAME, "TimestampTZ", NoLength, FALSE, FALSE, NoDefault)>>
                   \o (IF has_draft_and_publish(document.document_ref)
                       THEN <<Column_new(PUBLISHED_FIELD_NAME, "TimestampTZ", NoLength,
                                         FALSE, FALSE, NoDefault)>>
                       ELSE <<>>)
    IN  Table_new(document.details.main_table_name, columns, <<>>, <<>>)

\* LocalizationTableBuilder::new, the pushes, LocalizationTableBuilder::into
LocalizationTableBuilder(document, pushed) ==
    LET main_table_name == document.details.main_table_name
        localization_table_name == document.details.localization_table_name
        columns == <<Column_primary_key(DOCUMENT_ID_FIELD_NAME, "Integer", NoLength),
                     Column_primary_key(LOCALE_FIELD_NAME, "Varchar", LOCALIZATION_LEN)>>
                   \o pushed
        fkey_constraint == ForeignKeyConstraint_new(localization_table_name,
                               DOCUMENT_ID_FIELD_NAME, main_table_name, DOCUMENT_ID_FIELD_NAME)
        fkey_index == Index_new(localization_table_name, <<DOCUMENT_ID_FIELD_NAME>>, FALSE)
    IN  Table_new(localization_table_name, columns, <<fkey_constraint>>, <<fkey_index>>)

\* RelationTablesBuilder::push: the junction table of one relation
RelationTablesBuilder_push(document, relation, documents) ==
    LET main_table_name == document.details.main_table_name
        owning_column_name == document.details.relation_column_name
        target_document == get_persisted_document_by_ref(documents, relation.target)
        relation_table_name == relation.relation_table_name
        inverse_column_name ==
            normalized(target_document.document_ref.info.singular_name) \o ID_SUFFIX
        columns == <<Column_primary_key(RELATION_ID_FIELD_NAME, "Serial", NoLength),
                     Column_new(owning_column_name, "Integer", NoLength, TRUE, FALSE, NoDefault),
                     Column_new(inverse_column_name, "Integer", NoLength, TRUE, FALSE, NoDefault)>>
                   \o (IF relation.ordering
                       THEN <<Column_new(inverse_column_name \o ORDER_SUFFIX, "Integer",
                                         NoLength, TRUE, FALSE, NoDefault)>>
                       ELSE <<>>)
        foreign_keys == <<ForeignKeyConstraint_new(relation_table_name, owning_column_name,
                              main_table_name, DOCUMENT_ID_FIELD_NAME),
                          ForeignKeyConstraint_new(relation_table_name, inverse_column_name,
                              normalized(target_document.document_ref.id),
                              DOCUMENT_ID_FIELD_NAME)>>
        indexes == <<Index_new(relation_table_name, <<owning_column_name>>, FALSE),
                     Index_new(relation_table_name, <<inverse_column_name>>, FALSE)>>
    IN  Table_new(relation_table_name, columns, foreign_keys, indexes)

\* mutant: a relation table for every relation, owning or inverse
RECURSIVE relation_tables_of_every(_, _, _)
relation_tables_of_every(document, relation_order, documents) ==
    IF relation_order = <<>> THEN <<>>
    ELSE <<RelationTablesBuilder_push(document, document.relations[Head(relation_order)], documents)>>
         \o relation_tables_of_every(document, Tail(relation_order), documents)

\* the loop of DocumentTables::new over document.relations.iter()
RECURSIVE relation_tables_of(_, _, _)
relation_tables_of(document, relation_order, documents) ==
    IF relation_order = <<>> THEN <<>>
    ELSE LET relation == document.relations[Head(relation_order)]
             rest == relation_tables_of(document, Tail(relation_order), documents)
         IN  IF is_owning(relation.relation_type)
             THEN <<RelationTablesBuilder_push(document, relation, documents)>> \o rest
             ELSE rest

\* DocumentTables::new; field_order and relation_order are the orders in
\* which the two HashMaps of the PersistedDocument are iterated
DocumentTables_new(document, documents, field_order, relation_order) ==
    [main_table |->
         MainTableBuilder(document, handle_document_fields(document, field_order, FALSE)),
     localization_table |->
         IF has_localization(document.document_ref)
         THEN <<LocalizationTableBuilder(document,
                    handle_document_fields(document, field_order, TRUE))>>
         ELSE <<>>,
     relation_tables |-> relation_tables_of(document, relation_order, documents)]

\* Documents::persisted_documents: the documents in the order the registry's
\* HashSet is iterated (doc_order)
RECURSIVE documents_into_tables_loop(_, _, _)
documents_into_tables_loop(documents, doc_order, order) ==
    IF doc_order = <<>> THEN [tables |-> <<>>, relation_tables |-> <<>>]
    ELSE LET id == Head(doc_order)
             d == DocumentTables_new(PersistedDocument_new(get_document(documents, id).value),
                                     documents, order.fields[id], order.relations[id])
             rest == documents_into_tables_loop(documents, Tail(doc_order), order)
         IN  [tables |-> <<d.main_table>> \o d.localization_table \o rest.tables,
              relation_tables |-> d.relation_tables \o rest.relation_tables]

\* mutant: the relation tables are put before the main tables
documents_into_tables_relations_first(documents, order) ==
    LET loop == documents_into_tables_loop(documents, order.documents, order)
    IN  loop.relation_tables \o loop.tables

\* documents_into_tables: "sorted conform dependency order"
documents_into_tables(documents, order) ==
    LET loop == documents_into_tables_loop(documents, order.documents, order)
    IN  loop.tables \o loop.relation_tables

\* every order in which the registry's HashSet and the two HashMaps of each
\* PersistedDocument can be iterated
IterationOrders(documents) ==
    LET ids == {d.id : d \in documents}
        persisted(id) == PersistedDocument_new(get_document(documents, id).value)
    IN  [documents : Permutations_of(ids),
         fields : {f \in [ids -> UNION {Permutations_of(DOMAIN persisted(id).fields) : id \in ids}] :
                       \A id \in ids : f[id] \in Permutations_of(DOMAIN persisted(id).fields)},
         relations : {f \in [ids -> UNION {Permutations_of(DOMAIN persisted(id).relations) : id \in ids}] :
                       \A id \in ids : f[id] \in Permutations_of(DOMAIN persisted(id).relations)}]

(***************************************************************************)
(* DDL generation (migration/src/domain/migration.rs)                      *)
(***************************************************************************)
DATABASE_SCHEMA == <<"p","u","b","l","i","c">>

Statement(kind) ==
    [kind |-> kind, schema |-> DATABASE_SCHEMA, table_name |-> <<>>, name |-> <<>>,
     column_defs |-> <<>>, primary_key |-> <<>>, columns |-> <<>>, unique |-> FALSE,
     referenced_table_name |-> <<>>, referenced_column_name |-> <<>>, on_delete |-> ""]

sql_type(column_type) ==
    CASE column_type = "Serial" -> "SERIAL"
      [] column_type = "Uuid" -> "UUID"
      [] column_type = "Text" -> "TEXT"
      [] column_type = "Varchar" -> "VARCHAR"
      [] column_type = "Integer" -> "INTEGER"
      [] column_type = "Decimal" -> "DECIMAL"
      [] column_type = "Date" -> "DATE"
      [] column_type = "TimestampTZ" -> "TIMESTAMPTZ"
      [] column_type = "Boolean" -> "BOOLEAN"

\* column_ddl: "<name>" <TYPE>[(<length>)][ NOT NULL][ DEFAULT <value>][ UNIQUE]
column_ddl(column) ==
    [name |-> column.name, type |-> sql_type(column.column_type),
     length |-> column.column_length, not_null |-> column.not_null,
     default |-> column.default_value, unique |-> column.unique]

RECURSIVE pk_columns_of(_)
pk_columns_of(columns) ==
    IF columns = <<>> THEN <<>>
    ELSE (IF Head(columns).primary_key THEN <<Head(columns).name>> ELSE <<>>)
         \o pk_columns_of(Tail(columns))

create_fk_ddl(schema, fk) ==
    [Statement("ALTER TABLE ADD CONSTRAINT FOREIGN KEY") EXCEPT
        !.schema = schema,
        !.table_name = fk.table_name,
        !.name = fk.table_name \o <<"_">> \o fk.column_name \o FKEY_SUFFIX,
        !.columns = <<fk.column_name>>,
        !.referenced_table_name = fk.referenced_table_name,
        !.referenced_column_name = fk.referenced_column_name,
        !.on_delete = "CASCADE"]

create_index_ddl(schema, index) ==
    [Statement("CREATE INDEX") EXCEPT
        !.schema = schema,
        !.unique = index.unique,
        !.name = index.table_name \o <<"_">> \o join(index.columns, <<"_">>) \o IDX_SUFFIX,
        !.table_name = index.table_name,
        !.columns = index.columns]

\* mutant: the indexes are created before the foreign keys
create_table_ddl_indexes_first(schema, table) ==
    LET table_ddl == [Statement("CREATE TABLE") EXCEPT
                         !.schema = schema,
                         !.table_name = table.name,
                         !.column_defs = [i \in DOMAIN table.columns |-> column_ddl(table.columns[i])],
                         !.primary_key = pk_columns_of(table.columns)]
    IN  <<table_ddl>>
        \o [i \in DOMAIN table.indexes |-> create_index_ddl(schema, table.indexes[i])]
        \o [i \in DOMAIN table.foreign_keys |-> create_fk_ddl(schema, table.foreign_keys[i])]

create_table_ddl(schema, table) ==
    LET table_ddl == [Statement("CREATE TABLE") EXCEPT
                         !.schema = schema,
                         !.table_name = table.name,
                         !.column_defs = [i \in DOMAIN table.columns |-> column_ddl(table.columns[i])],
                         !.primary_key = pk_columns_of(table.columns)]
    IN  <<table_ddl>>
        \o [i \in DOMAIN table.foreign_keys |-> create_fk_ddl(schema, table.foreign_keys[i])]
        \o [i \in DOMAIN table.indexes |-> create_index_ddl(schema, table.indexes[i])]

\* CreateTableStep::new / ctx / ddls
CreateTableStep_new(database_schema, table) ==
    [ctx |-> "CREATE TABLE", ddls |-> create_table_ddl(database_schema, table)]

(***************************************************************************)
(* The database: base tables of the configured schema.  A table holds the  *)
(* column definitions it was created with and the constraints and indexes  *)
(* added to it since.                                                      *)
(***************************************************************************)
NoTx == [open |-> FALSE, tables |-> {}]
Tx(tables) == [open |-> TRUE, tables |-> tables]

\* a table that was in the database before any run, with columns of its own
LegacyTable(name) ==
    [name |-> name,
     column_defs |-> <<column_ddl(Column_new(S_legacy, "Text", NoLength, FALSE, FALSE, NoDefault))>>,
     primary_key |-> <<>>, foreign_keys |-> {}, indexes |-> {}]

table_exists(tables, name) == \E t \in tables : t.name = name

table_named(tables, name) == CHOOSE t \in tables : t.name = name

has_column(t, column_name) == \E i \in DOMAIN t.column_defs : t.column_defs[i].name = column_name

\* whether the database accepts the statement on the given tables
pg_accepts(tables, ddl) ==
    CASE ddl.kind = "CREATE TABLE" -> ~table_exists(tables, ddl.table_name)
      [] ddl.kind = "ALTER TABLE ADD CONSTRAINT FOREIGN KEY" ->
            /\ table_exists(tables, ddl.table_name)
            /\ table_exists(tables, ddl.referenced_table_name)
            /\ \A i \in DOMAIN ddl.columns : has_column(table_named(tables, ddl.table_name), ddl.columns[i])
            /\ has_column(table_named(tables, ddl.referenced_table_name), ddl.referenced_column_name)
            /\ \A fk \in table_named(tables, ddl.table_name).foreign_keys : fk.name # ddl.name
      [] ddl.kind = "CREATE INDEX" ->
            /\ table_exists(tables, ddl.table_name)
            /\ \A i \in DOMAIN ddl.columns : has_column(table_named(tables, ddl.table_name), ddl.columns[i])
            /\ \A t \in tables : \A ix \in t.indexes : ix.name # ddl.name

\* the tables after the statement has been executed
pg_apply(tables, ddl) ==
    CASE ddl.kind = "CREATE TABLE" ->
            tables \cup {[name |-> ddl.table_name, column_defs |-> ddl.column_defs,
                          primary_key |-> ddl.primary_key, foreign_keys |-> {}, indexes |-> {}]}
      [] ddl.kind = "ALTER TABLE ADD CONSTRAINT FOREIGN KEY" ->
            LET t == table_named(tables, ddl.table_name)
            IN  (tables \ {t}) \cup
                {[t EXCEPT !.foreign_keys = @ \cup
                    {[name |-> ddl.name, columns |-> ddl.columns,
                      referenced_table_name |-> ddl.referenced_table_name,
                      referenced_column_name |-> ddl.referenced_column_name,
                      on_delete |-> ddl.on_delete]}]}
      [] ddl.kind = "CREATE INDEX" ->
            LET t == table_named(tables, ddl.table_name)
            IN  (tables \ {t}) \cup
                {[t EXCEPT !.indexes = @ \cup
                    {[name |-> ddl.name, columns |-> ddl.columns, unique |-> ddl.unique]}]}

\* PersistenceAdapter::load: the names of the base tables of the schema,
\* geometry_columns and spatial_ref_sys excluded
Persistence_load(tables) ==
    {t.name : t \in tables} \ {GEOMETRY_COLUMNS, SPATIAL_REF_SYS}

\* mutant: a step is planned for every needed table
RECURSIVE plan_steps_all(_, _)
plan_steps_all(needed, actual) ==
    IF needed = <<>> THEN <<>>
    ELSE <<CreateTableStep_new(DATABASE_SCHEMA, Head(needed))>> \o plan_steps_all(Tail(needed), actual)

\* the loop of Migration::migrate: a step for every needed table whose name
\* the actual schema does not contain
RECURSIVE plan_steps(_, _)
plan_steps(needed, actual) ==
    IF needed = <<>> THEN <<>>
    ELSE (IF Head(needed).name \notin actual
          THEN <<CreateTableStep_new(DATABASE_SCHEMA, Head(needed))>>
          ELSE <<>>)
         \o plan_steps(Tail(needed), actual)

Failure(what, ctx) == [ok |-> FALSE, error |-> <<"failed to", what, ctx>>]
Success == [ok |-> TRUE, error |-> <<>>]
NoResult == [ok |-> FALSE, error |-> <<"not run">>]

NotConstructed == [constructed |-> FALSE, res |-> Err]
NotNormalized == [called |-> FALSE, value |-> <<>>]

IdIdle ==
    /\ raw = <<>>
    /\ ident = NotConstructed
    /\ norm = NotNormalized

NoSchema == [loaded |-> FALSE]
NotDerived == [done |-> FALSE]
NotBuilt == [built |-> FALSE]

BuildersIdle ==
    /\ derived = NotDerived
    /\ main_query = NotBuilt
    /\ related_query = NotBuilt
    /\ count_sql = NotBuilt

QueryIdle ==
    /\ document_type = NoSchema
    /\ BuildersIdle

NoRow == [fetched |-> FALSE]
NotDecoded == [done |-> FALSE]

DecodeIdle ==
    /\ row = NoRow
    /\ decoded = NotDecoded

EmptyStore == [rows |-> [t \in {} |-> {}], links |-> [t \in {} |-> {}]]
NoRequest == [present |-> FALSE]
HandlerIdle == [pc |-> "idle"]
NoResponse == [status |-> "none"]

ServiceIdle ==
    /\ svc_pc = "start"
    /\ app_state = [documents |-> {}]
    /\ store = EmptyStore
    /\ request = NoRequest
    /\ handler = HandlerIdle
    /\ executed = <<>>
    /\ response = NoResponse

NotBuiltYet == [done |-> FALSE]

SqlIdle ==
    /\ where_conditions = <<>>
    /\ built = NotBuiltYet

NotCalled == [called |-> FALSE]

RegistryIdle ==
    /\ types = {}
    /\ reg_pc = "load"
    /\ got = NotCalled
    /\ yielded = NotCalled

NotDerivedYet == [done |-> FALSE]

DeriveIdle ==
    /\ schema_files = {}
    /\ loaded_documents = NoSchema
    /\ needed_tables = NotDerivedYet

NoInstance == [present |-> FALSE]
NoCall == [op |-> "none", res |-> "none"]

LifecycleIdle ==
    /\ instance = NoInstance
    /\ last_call = NoCall

\* the joining of fetched rows at rest
NotGroupedYet == [done |-> FALSE]
NotJoinedYet == [done |-> FALSE]

JoinIdle ==
    /\ main_rows = <<>>
    /\ related_result_sets = EmptyMap
    /\ grouped = NotGroupedYet
    /\ enriched = NotJoinedYet

(***************************************************************************)
(* The process: load the registry, then migrate(), any number of times.    *)
(***************************************************************************)
LiveUniverse == {S_article, S_page \o LOCALIZATION_SUFFIX}

Init ==
    /\ JoinIdle
    /\ LifecycleIdle
    /\ DeriveIdle
    /\ RegistryIdle
    /\ SqlIdle
    /\ files \in {fs \in SUBSET FileUniverse : Cardinality(fs) <= MaxFiles}
    /\ db \in {{LegacyTable(n) : n \in live} : live \in SUBSET LiveUniverse}
    /\ pc = "start"
    /\ registry = {}
    /\ result = NoResult
    /\ needed_schema = <<>>
    /\ actual_schema = {}
    /\ migration_steps = <<>>
    /\ step_i = 0
    /\ ddl_j = 0
    /\ tx = NoTx
    /\ out = <<>>
    /\ IdIdle
    /\ QueryIdle
    /\ DecodeIdle
    /\ ServiceIdle

migrate_locals == <<needed_schema, actual_schema, migration_steps, step_i, ddl_j, tx, out>>

\* load_documents(path)?: the entries are read in the order read_dir gives
LoadDocuments ==
    /\ UNCHANGED outside_migration
    /\ pc = "start"
    /\ \E entries \in Permutations_of(files) :
          LET loaded == load_documents(entries)
          IN  IF loaded.ok
              THEN /\ registry' = loaded.value
                   /\ pc' = "migrate"
              ELSE /\ registry' = registry
                   /\ pc' = "load_error"
    /\ UNCHANGED <<files, result, db>>
    /\ UNCHANGED migrate_locals

\* a relation whose target is not in the registry: PersistedDocument::new panics
MigratePanic ==
    /\ UNCHANGED outside_migration
    /\ pc = "migrate"
    /\ \E d \in registry : PersistedDocument_panics(d, registry)
    /\ pc' = "panicked"
    /\ UNCHANGED <<files, registry, result, db>>
    /\ UNCHANGED migrate_locals

\* migrate(): self.persistence.load().await? fails
MigrateLoadFails ==
    /\ UNCHANGED outside_migration
    /\ pc = "migrate"
    /\ \A d \in registry : ~PersistedDocument_panics(d, registry)
    /\ \E order \in IterationOrders(registry) :
          needed_schema' = documents_into_tables(registry, order)
    /\ result' = Failure("load", "tables")
    /\ pc' = "done"
    /\ UNCHANGED <<files, registry, db, actual_schema, migration_steps, step_i, ddl_j, tx, out>>

\* migrate(): Planning
MigratePlan ==
    /\ UNCHANGED outside_migration
    /\ pc = "migrate"
    /\ \A d \in registry : ~PersistedDocument_panics(d, registry)
    /\ \E order \in IterationOrders(registry) :
          /\ needed_schema' = documents_into_tables(registry, order)
          /\ actual_schema' = Persistence_load(db)
          /\ migration_steps' = plan_steps(needed_schema', actual_schema')
    /\ step_i' = 1
    /\ pc' = "apply"
    /\ UNCHANGED <<files, registry, result, db, ddl_j, tx, out>>

\* println!("{}", ctx) and println!("{}", ddl)
PrintedCtx(ctx) == [printed |-> "ctx", ctx |-> ctx, ddl |-> Statement("")]
PrintedDdl(ddl) == [printed |-> "ddl", ctx |-> "", ddl |-> ddl]

\* mutant: the queries run outside the transaction and what was executed stays
rollback_keeps_executed(committed, transaction) ==
    IF transaction.open THEN transaction.tables ELSE committed

\* a transaction dropped without commit is rolled back: the committed
\* tables are what they were
rollback(committed, transaction) == committed

\* mutant: the error of a step is swallowed and the next step is applied
Abort_and_continue(what) ==
    /\ result' = result
    /\ db' = rollback(db, tx)
    /\ tx' = NoTx
    /\ pc' = pc
    /\ step_i' = step_i + 1
    /\ UNCHANGED ddl_j

\* the ? of execute_in_transaction and of apply_migration_steps: the error,
\* with its context, is what migrate() returns; no further step is taken
Abort(what) ==
    /\ result' = Failure(what, migration_steps[step_i].ctx)
    /\ db' = rollback(db, tx)
    /\ tx' = NoTx
    /\ pc' = "done"
    /\ UNCHANGED <<step_i, ddl_j>>

\* execute_in_transaction: database_pool.begin()
BeginTransaction ==
    /\ UNCHANGED outside_migration
    /\ pc = "apply"
    /\ step_i <= Len(migration_steps)
    /\ ~tx.open
    /\ \/ /\ tx' = Tx(db)
          /\ ddl_j' = 1
          /\ out' = Append(out, PrintedCtx(migration_steps[step_i].ctx))
          /\ UNCHANGED <<pc, result, db, step_i>>
       \/ /\ Abort("start transaction")
          /\ UNCHANGED out
    /\ UNCHANGED <<files, registry, needed_schema, actual_schema, migration_steps>>

\* execute_in_transaction: one query of the script
ExecuteQuery ==
    /\ UNCHANGED outside_migration
    /\ pc = "apply"
    /\ tx.open
    /\ ddl_j <= Len(migration_steps[step_i].ddls)
    /\ LET ddl == migration_steps[step_i].ddls[ddl_j]
       IN  /\ out' = Append(out, PrintedDdl(ddl))
           /\ \/ /\ pg_accepts(tx.tables, ddl)
                 /\ tx' = Tx(pg_apply(tx.tables, ddl))
                 /\ ddl_j' = ddl_j + 1
                 /\ UNCHANGED <<pc, result, db, step_i>>
              \/ Abort("execute query")
    /\ UNCHANGED <<files, registry, needed_schema, actual_schema, migration_steps>>

\* execute_in_transaction: transaction.commit(), then the next step
CommitTransaction ==
    /\ UNCHANGED outside_migration
    /\ pc = "apply"
    /\ tx.open
    /\ ddl_j > Len(migration_steps[step_i].ddls)
    /\ \/ /\ db' = tx.tables
          /\ tx' = NoTx
          /\ step_i' = step_i + 1
          /\ UNCHANGED <<pc, result, ddl_j>>
       \/ Abort("commit transaction")
    /\ UNCHANGED <<files, registry, needed_schema, actual_schema, migration_steps, out>>

\* apply_migration_steps: the stream of steps is exhausted; migrate() returns Ok(())
MigrateOk ==
    /\ UNCHANGED outside_migration
    /\ pc = "apply"
    /\ step_i > Len(migration_steps)
    /\ ~tx.open
    /\ result' = Success
    /\ pc' = "done"
    /\ UNCHANGED <<files, registry, db>>
    /\ UNCHANGED migrate_locals

\* the migration is started again on the database the last run left
MigrateAgain ==
    /\ UNCHANGED outside_migration
    /\ pc = "done"
    /\ pc' = "migrate"
    /\ needed_schema' = <<>>
    /\ actual_schema' = {}
    /\ migration_steps' = <<>>
    /\ step_i' = 0
    /\ ddl_j' = 0
    /\ out' = <<>>
    /\ UNCHANGED <<files, registry, result, db, tx>>

Next ==
    \/ LoadDocuments
    \/ MigratePanic
    \/ MigrateLoadFails
    \/ MigratePlan
    \/ BeginTransaction
    \/ ExecuteQuery
    \/ CommitTransaction
    \/ MigrateOk
    \/ MigrateAgain

Spec == Init /\ [][Next]_vars

(***************************************************************************)
(* Identifier construction on its own: an input string, try_new, then      *)
(* normalized() of the identifier constructed.                             *)
(***************************************************************************)
IdAlphabet == {" ", "A", "b", "9", "-", "_", "/", "!"}

Pad(n) == [i \in 1..n |-> "a"]

\* inputs at the length limit, with the reserved prefix, with other whitespace
LongInputs ==
    { Pad(20), Pad(21), <<" ">> \o Pad(20) \o <<" ">>, <<"A", "-">> \o Pad(18),
      <<"-">> \o Pad(20),
      RESERVED_PREFIX, RESERVED_PREFIX \o <<"x">>,
      <<" ", "L", "U", "M", "I", "N", "A", "I", "R", "_", "x">>,
      <<"x">> \o RESERVED_PREFIX,
      <<"\t", "a", "-", "B", "\n">>, <<"a", "\t", "b">> }

IdInputs ==
    UNION {[1..n -> IdAlphabet] : n \in 0..MaxIdLen} \cup LongInputs

MigrationIdle ==
    /\ files = {}
    /\ db = {}
    /\ pc = "start"
    /\ registry = {}
    /\ result = NoResult
    /\ needed_schema = <<>>
    /\ actual_schema = {}
    /\ migration_steps = <<>>
    /\ step_i = 0
    /\ ddl_j = 0
    /\ tx = NoTx
    /\ out = <<>>

IdInit ==
    /\ JoinIdle
    /\ LifecycleIdle
    /\ DeriveIdle
    /\ RegistryIdle
    /\ SqlIdle
    /\ MigrationIdle
    /\ QueryIdle
    /\ DecodeIdle
    /\ ServiceIdle
    /\ raw \in IdInputs
    /\ ident = NotConstructed
    /\ norm = NotNormalized

\* DocumentTypeId::try_new(raw) / AttributeId::try_new(raw)
TryNew ==
    /\ UNCHANGED outside_id
    /\ ~ident.constructed
    /\ ident' = [constructed |-> TRUE, res |-> try_new(raw)]
    /\ UNCHANGED <<raw, norm>>

\* id.normalized() of the identifier constructed
Normalized ==
    /\ UNCHANGED outside_id
    /\ ident.constructed /\ ident.res.ok
    /\ ~norm.called
    /\ norm' = [called |-> TRUE, value |-> normalized(ident.res.value)]
    /\ UNCHANGED <<raw, ident>>

IdNext ==
    \/ TryNew
    \/ Normalized

IdSpec == IdInit /\ [][IdNext]_vars

(***************************************************************************)
(* The service's query side: the DocumentType of a schema file, the query  *)
(* builders of infrastructure/persistence/build.rs and count().            *)
(***************************************************************************)
S_post == <<"p", "o", "s", "t">>
S_blog_post == <<"b", "l", "o", "g", "-", "p", "o", "s", "t">>
S_related == <<"r", "e", "l", "a", "t", "e", "d">>

\* names the service imports from luminair_common; common/src/lib.rs of this
\* source tree does not define them
ID_FIELD_NAME == <<"i", "d">>
CREATED_BY_FIELD_NAME == <<"c", "r", "e", "a", "t", "e", "d", "_", "b", "y">>
UPDATED_BY_FIELD_NAME == <<"u", "p", "d", "a", "t", "e", "d", "_", "b", "y">>
PUBLISHED_BY_FIELD_NAME == <<"p", "u", "b", "l", "i", "s", "h", "e", "d", "_", "b", "y">>
VERSION_FIELD_NAME == <<"v", "e", "r", "s", "i", "o", "n">>
REVISION_FIELD_NAME == <<"r", "e", "v", "i", "s", "i", "o", "n">>
OWNING_ID_FIELD_NAME == <<"o", "w", "n", "i", "n", "g", "_", "i", "d">>
INVERSE_ID_FIELD_NAME == <<"i", "n", "v", "e", "r", "s", "e", "_", "i", "d">>

\* TryFrom<(&str, DocumentRecord)> for DocumentType: the attributes go to two
\* HashMaps keyed by AttributeId
DocumentType_try_from(rec) ==
    LET document == Document_try_from(rec)
    IN  IF ~document.ok THEN Err
        ELSE LET persisted == PersistedDocument_new(document.value)
             IN  Ok([id |-> document.value.id,
                     info |-> document.value.info,
                     options |-> document.value.options,
                     fields |-> [k \in DOMAIN persisted.fields |->
                                    [attribute_type |-> persisted.fields[k].attribute_type,
                                     unique |-> persisted.fields[k].unique,
                                     required |-> persisted.fields[k].required,
                                     localized |-> persisted.fields[k].localized]],
                     relations |-> [k \in DOMAIN persisted.relations |->
                                    [relation_type |-> persisted.relations[k].relation_type,
                                     target |-> persisted.relations[k].target,
                                     ordering |-> persisted.relations[k].ordering]]])

\* TableNameProvider::table_name
MainTable(document) == [variant |-> "MainTable", document |-> document, relation |-> <<>>]
RelationTable(document, relation) ==
    [variant |-> "RelationTable", document |-> document, relation |-> relation]

TableNameProvider_table_name(provider) ==
    IF provider.variant = "MainTable"
    THEN normalized(provider.document.info.singular_name)
    ELSE normalized(provider.document.info.singular_name) \o <<"_">>
         \o normalized(provider.relation) \o RELATION_SUFFIX

\* QualifiedTable::from(&DocumentType), ::from((&DocumentType, &AttributeId))
QualifiedTable_from_document(document) ==
    [name |-> MainTable(document), alias |-> "m"]

QualifiedTable_from_relation(document, relation) ==
    [name |-> RelationTable(document, relation), alias |-> "r"]

\* the Column constants of persistence/columns.rs
ColumnRef(qualifier, name) == [qualifier |-> qualifier, name |-> name]
ID_COLUMN == ColumnRef("m", ID_FIELD_NAME)
DOCUMENT_ID_COLUMN == ColumnRef("m", DOCUMENT_ID_FIELD_NAME)
CREATED_COLUMN == ColumnRef("m", CREATED_FIELD_NAME)
UPDATED_COLUMN == ColumnRef("m", UPDATED_FIELD_NAME)
PUBLISHED_COLUMN == ColumnRef("m", PUBLISHED_FIELD_NAME)
CREATED_BY_COLUMN == ColumnRef("m", CREATED_BY_FIELD_NAME)
UPDATED_BY_COLUMN == ColumnRef("m", UPDATED_BY_FIELD_NAME)
PUBLISHED_BY_COLUMN == ColumnRef("m", PUBLISHED_BY_FIELD_NAME)
VERSION_COLUMN == ColumnRef("m", VERSION_FIELD_NAME)
REVISION_COLUMN == ColumnRef("m", REVISION_FIELD_NAME)
OWNING_ID_COLUMN == ColumnRef("r", OWNING_ID_FIELD_NAME)
INVERSE_ID_COLUMN == ColumnRef("r", INVERSE_ID_FIELD_NAME)

\* main_columns; key_order is the order schema.fields.keys() yields the ids
main_columns(document, key_order) ==
    << ID_COLUMN, DOCUMENT_ID_COLUMN, CREATED_COLUMN, UPDATED_COLUMN,
       CREATED_BY_COLUMN, UPDATED_BY_COLUMN, VERSION_COLUMN >>
    \o (IF has_draft_and_publish(document)
        THEN << PUBLISHED_COLUMN, PUBLISHED_BY_COLUMN, REVISION_COLUMN >>
        ELSE <<>>)
    \o [i \in DOMAIN key_order |-> ColumnRef("m", normalized(key_order[i]))]

\* main_query_builder
main_query_builder(document, key_order) ==
    [from_table |-> QualifiedTable_from_document(document),
     joins |-> <<>>,
     select |-> main_columns(document, key_order),
     order_by |-> <<>>]

\* related_query_builder
related_query_builder(main_schema, related_schema, relation_attr, key_order) ==
    [from_table |-> QualifiedTable_from_relation(main_schema, relation_attr),
     joins |-> << [join_type |-> "Inner",
                   target_table |-> QualifiedTable_from_document(related_schema),
                   main_column |-> ID_COLUMN,
                   target_column |-> INVERSE_ID_COLUMN] >>,
     select |-> main_columns(related_schema, key_order) \o <<OWNING_ID_COLUMN>>,
     order_by |-> << [column |-> OWNING_ID_COLUMN, direction |-> "Ascending"] >>]

\* PostgresDocumentRepository::count: the table of "SELECT COUNT(*) ... FROM"
count_table(document_type_id) == normalized(document_type_id)

\* the schema files the query side is exercised with: id and singular name
\* equal or different, with and without hyphens, every options combination,
\* a plain and a localized field, an owning and an inverse self-relation
QueryIds == {S_article, S_blog_post}
QueryNames == {S_article, S_blog_post, S_post}

QueryRecords ==
    { DocumentRecord(id, singular, S_articles, options,
          << FieldRecord(S_title, "Text", FALSE, TRUE, FALSE),
             FieldRecord(S_name, "Text", FALSE, FALSE, localized),
             RelationRecord(S_related, "HasMany", id, FALSE),
             RelationRecord(S_parent, "BelongsToOne", id, FALSE) >>) :
        id \in QueryIds, singular \in QueryNames, localized \in BOOLEAN,
        options \in {NoOptions, Options(TRUE, <<>>), Options(FALSE, <<S_en>>),
                     Options(TRUE, <<S_en, S_ro>>)} }

schema_of(dt) == dt.value
document_of(dt) == Document_try_from(dt.source).value

QueryInit ==
    /\ JoinIdle
    /\ LifecycleIdle
    /\ DeriveIdle
    /\ RegistryIdle
    /\ SqlIdle
    /\ MigrationIdle
    /\ IdIdle
    /\ DecodeIdle
    /\ ServiceIdle
    /\ \E rec \in QueryRecords :
           document_type = [loaded |-> TRUE, source |-> rec,
                            value |-> DocumentType_try_from(rec).value]
    /\ BuildersIdle

\* the migration's DocumentTables::new for the document type
DeriveTables ==
    /\ ~derived.done
    /\ LET document == PersistedDocument_new(document_of(document_type))
       IN  \E field_order \in Permutations_of(DOMAIN document.fields),
              relation_order \in Permutations_of(DOMAIN document.relations) :
               derived' = [done |-> TRUE,
                           tables |-> DocumentTables_new(document,
                                          {document_of(document_type)},
                                          field_order, relation_order)]
    /\ UNCHANGED <<document_type, main_query, related_query, count_sql>>
    /\ UNCHANGED outside_query

\* find / find_by_id: main_query_builder(schema)
BuildMainQuery ==
    /\ ~main_query.built
    /\ \E key_order \in Permutations_of(DOMAIN schema_of(document_type).fields) :
           main_query' = [built |-> TRUE,
                          query |-> main_query_builder(schema_of(document_type), key_order)]
    /\ UNCHANGED <<document_type, derived, related_query, count_sql>>
    /\ UNCHANGED outside_query

\* the relation fetch: related_query_builder(schema, target schema, relation)
BuildRelatedQuery ==
    /\ ~related_query.built
    /\ \E relation_attr \in DOMAIN schema_of(document_type).relations :
       \E key_order \in Permutations_of(DOMAIN schema_of(document_type).fields) :
           related_query' =
               [built |-> TRUE, relation |-> relation_attr,
                query |-> related_query_builder(schema_of(document_type),
                              schema_of(document_type), relation_attr, key_order)]
    /\ UNCHANGED <<document_type, derived, main_query, count_sql>>
    /\ UNCHANGED outside_query

\* count(document_type_id)
Count ==
    /\ ~count_sql.built
    /\ count_sql' = [built |-> TRUE, table |-> count_table(schema_of(document_type).id)]
    /\ UNCHANGED <<document_type, derived, main_query, related_query>>
    /\ UNCHANGED outside_query

QueryNext ==
    \/ DeriveTables
    \/ BuildMainQuery
    \/ BuildRelatedQuery
    \/ Count

QuerySpec == QueryInit /\ [][QueryNext]_vars

(***************************************************************************)
(* Row decoding (infrastructure/persistence/result.rs): a fetched row and  *)
(* the DocumentInstance row_to_document makes of it.                       *)
(***************************************************************************)
MaxRevision == 3

S_a_hyphen_b == <<"a", "-", "b">>
S_a_underscore_b == <<"a", "_", "b">>

\* Option<T> of a column read
None == [some |-> FALSE]
Some(v) == [some |-> TRUE, value |-> v]

\* row.try_get(column_name): the column's value, None for SQL NULL, an error
\* when the row has no such column
try_get(r, column_name) ==
    IF column_name \in DOMAIN r.columns THEN Ok(r.columns[column_name]) ELSE Err

\* ContentValue::Scalar, DomainValue
Scalar(v) == [variant |-> "Scalar", value |-> v]
DomainValue(tag, v) == [tag |-> tag, value |-> v]
DomainValue_Null == [tag |-> "Null"]

\* the DomainValue variant each arm of parse_field_value constructs
domain_variant_of(attribute_type) ==
    CASE attribute_type = "Text" -> "Text"
      [] attribute_type = "Integer" -> "Integer"
      [] attribute_type = "Decimal" -> "Decimal"
      [] attribute_type = "Boolean" -> "Boolean"
      [] attribute_type = "Date" -> "Date"
      [] attribute_type = "DateTime" -> "DateTime"
      [] attribute_type \in {"Uid", "Uuid"} -> "Uuid"

\* parse_field_value
parse_field_value(r, field, column_name) ==
    LET read == try_get(r, column_name)
    IN  IF ~read.ok THEN Err
        ELSE IF read.value.some
             THEN Ok(Scalar(DomainValue(domain_variant_of(field.attribute_type),
                                        read.value.value)))
             ELSE Ok(Scalar(DomainValue_Null))

\* PublicationState
Draft(revision) == [state |-> "Draft", revision |-> revision]
Published(revision, published_at, published_by) ==
    [state |-> "Published", revision |-> revision,
     published_at |-> published_at, published_by |-> published_by]

\* parse_publication_state
parse_publication_state(r, document, created_at) ==
    IF has_draft_and_publish(document)
    THEN IF r.published_at.some
         THEN Published(r.revision, r.published_at.value, r.published_by)
         ELSE Draft(1)
    ELSE Published(1, created_at, None)

\* parse_audit_trail
parse_audit_trail(r, created_at) ==
    [created_at |-> created_at, created_by |-> r.created_by,
     updated_at |-> r.updated_at, updated_by |-> r.updated_by,
     version |-> r.version]

\* the loop of row_to_document over schema.fields.iter(), in the order the
\* HashMap yields the fields; the map is keyed by the normalized field id
RECURSIVE decode_fields(_, _, _, _)
decode_fields(r, document, field_order, fields) ==
    IF field_order = <<>> THEN Ok(fields)
    ELSE LET field_id == Head(field_order)
             column_name == normalized(field_id)
             value == parse_field_value(r, document.fields[field_id], column_name)
         IN  IF ~value.ok THEN Err
             ELSE decode_fields(r, document, Tail(field_order),
                                HashMap_insert(fields, normalized(field_id), value.value))

\* row_to_document
row_to_document(r, document, field_order) ==
    LET fields == decode_fields(r, document, field_order, EmptyMap)
    IN  IF ~fields.ok THEN Err
        ELSE Ok([id |-> r.id,
                 document_id |-> r.document_id,
                 content |-> [fields |-> fields.value,
                              publication_state |->
                                  parse_publication_state(r, document, r.created_at)],
                 audit |-> parse_audit_trail(r, r.created_at)])

\* the schema files rows are decoded for
DecodeAttributes ==
    { << FieldRecord(S_title, "Text", FALSE, TRUE, FALSE),
         FieldRecord(S_views, "Integer", FALSE, FALSE, FALSE) >>,
      << FieldRecord(S_slug, "Uid", TRUE, FALSE, FALSE) >>,
      << FieldRecord(S_a_hyphen_b, "Boolean", FALSE, FALSE, FALSE),
         FieldRecord(S_a_underscore_b, "Boolean", FALSE, FALSE, FALSE) >> }

DecodeRecords ==
    { DocumentRecord(S_article, S_article, S_articles, options, attributes) :
        options \in {NoOptions, Options(TRUE, <<>>), Options(FALSE, <<S_en>>)},
        attributes \in DecodeAttributes }

\* a value of the Rust type parse_field_value reads a field's column as
column_value(attribute_type) ==
    CASE attribute_type = "Text" -> "some text"
      [] attribute_type = "Integer" -> "42"
      [] attribute_type = "Decimal" -> "1.5"
      [] attribute_type = "Boolean" -> "true"
      [] attribute_type = "Date" -> "2024-01-31"
      [] attribute_type = "DateTime" -> "2024-01-31T10:00:00Z"
      [] attribute_type = "Uid" -> "0b4a5c1e-9d3f-4a7b-8c2d-6e5f4a3b2c1d"
      [] attribute_type = "Uuid" -> "7f9c24e8-3b12-4fef-91e0-5a1c3d2b4e6f"

column_names(document) == {normalized(id) : id \in DOMAIN document.fields}

\* the field that owns a column; two fields of one normalized name share it
field_of_column(document, column_name) ==
    CHOOSE id \in DOMAIN document.fields : normalized(id) = column_name

\* the rows the main fetch of a document type can return: the system
\* columns and one column per selected field, each NULL or a value
Rows(document) ==
    { [fetched |-> TRUE, id |-> 1, document_id |-> "3d6f0a7e-0000-4000-8000-000000000001",
       created_at |-> created_at, updated_at |-> 9,
       created_by |-> None, updated_by |-> Some("editor"), version |-> 2,
       published_at |-> published_at, published_by |-> published_by,
       revision |-> revision,
       columns |-> [c \in column_names(document) |->
                        IF c \in nulls THEN None
                        ELSE Some(column_value(
                                 document.fields[field_of_column(document, c)].attribute_type))]] :
        created_at \in {1, 2},
        published_at \in IF has_draft_and_publish(document) THEN {None, Some(5)} ELSE {None},
        published_by \in IF has_draft_and_publish(document) THEN {None, Some("chief")} ELSE {None},
        revision \in IF has_draft_and_publish(document) THEN 1..MaxRevision ELSE {1},
        nulls \in SUBSET column_names(document) }

DecodeInit ==
    /\ JoinIdle
    /\ LifecycleIdle
    /\ DeriveIdle
    /\ RegistryIdle
    /\ SqlIdle
    /\ MigrationIdle
    /\ IdIdle
    /\ BuildersIdle
    /\ ServiceIdle
    /\ \E rec \in DecodeRecords :
           /\ document_type = [loaded |-> TRUE, source |-> rec,
                               value |-> DocumentType_try_from(rec).value]
           /\ row \in Rows(DocumentType_try_from(rec).value)
    /\ decoded = NotDecoded

\* row_to_document(row, schema)
RowToDocument ==
    /\ ~decoded.done
    /\ \E field_order \in Permutations_of(DOMAIN schema_of(document_type).fields) :
           decoded' = [done |-> TRUE,
                       res |-> row_to_document(row, schema_of(document_type), field_order)]
    /\ UNCHANGED row
    /\ UNCHANGED outside_decode

DecodeNext == RowToDocument

DecodeSpec == DecodeInit /\ [][DecodeNext]_vars

(***************************************************************************)
(* The service process: main() of service/src/main.rs, then the handlers   *)
(* find_document_by_id and find_all_documents of handlers/data/mod.rs with *)
(* the QueryBuilder of domain/query.rs.                                    *)
(***************************************************************************)
S_ghost == <<"g", "h", "o", "s", "t">>

\* the schema directory the service is started on
ServiceFiles == {F_article, F_author, F_page}

\* the database after a migration of ServiceFiles: document ids per main
\* table, (owning id, related id) pairs per relation table
S_author_articles_relation == S_author \o <<"_">> \o S_articles \o RELATION_SUFFIX
S_page_links_relation == S_page \o <<"_">> \o S_links \o RELATION_SUFFIX

LinkUniverse == {<<1, 1>>, <<2, 2>>, <<1, 3>>}

MigratedStore(links) ==
    [rows |-> [t \in {S_author, S_article, S_page} |->
                  IF t = S_author THEN {1, 2} ELSE IF t = S_article THEN {1, 2, 3} ELSE {1}],
     links |-> [t \in {S_author_articles_relation, S_page_links_relation} |->
                  IF t = S_author_articles_relation THEN links ELSE {<<1, 1>>}]]

StoreUniverse == {EmptyStore} \cup {MigratedStore(links) : links \in SUBSET LinkUniverse}

\* ApiError / ApiSuccess
ApiError(status) == [status |-> status, data |-> <<>>]
ApiSuccess(data) == [status |-> "OK", data |-> data]

\* the Column constants of domain/query.rs
Column(alias, name) == [alias |-> alias, name |-> name]

\* Select::new and the field columns QueryBuilder::new pushes
Select_new(document) ==
    {Column("m", DOCUMENT_ID_FIELD_NAME), Column("m", CREATED_FIELD_NAME),
     Column("m", UPDATED_FIELD_NAME)}
    \cup (IF has_draft_and_publish(document.document_ref)
          THEN {Column("m", PUBLISHED_FIELD_NAME)} ELSE {})
    \cup {Column("m", document.fields[id].table_column_name) : id \in DOMAIN document.fields}

\* QueryBuilder::new
QueryBuilder_new(document, from) ==
    [document |-> document.document_ref.id, from |-> from,
     select |-> Select_new(document), joins |-> <<>>, conditions |-> <<>>,
     order |-> <<Column("m", DOCUMENT_ID_FIELD_NAME)>>, has_owning_column |-> FALSE]

\* From<&Document> for QueryBuilder
QueryBuilder_from(document) ==
    QueryBuilder_new(document, [name |-> document.details.main_table_name, alias |-> "m"])

\* QueryBuilder::find_by_document_id
find_by_document_id(builder) ==
    [builder EXCEPT !.conditions = Append(@, Column("m", DOCUMENT_ID_FIELD_NAME))]

\* QueryBuilder::from_relation
from_relation(populated_document, relation, related_document) ==
    LET builder == QueryBuilder_new(related_document,
                       [name |-> relation.relation_table_name, alias |-> "r"])
        owning_column_name == populated_document.details.relation_column_name
    IN  [builder EXCEPT
            !.select = @ \cup {Column("f", owning_column_name)},
            !.has_owning_column = TRUE,
            !.joins = << [join_table |-> [name |-> related_document.details.main_table_name,
                                          alias |-> "m"],
                          main_column |-> Column("r", related_document.details.relation_column_name),
                          join_column_name |-> DOCUMENT_ID_FIELD_NAME] >>]

\* QueryBuilder::with_owning_id_condition
with_owning_id(builder, owning_column_name) ==
    [builder EXCEPT !.conditions = Append(@, Column("r", owning_column_name))]

\* ResultRow
ResultRow(owning_id, document_id) == [owning_id |-> owning_id, document_id |-> document_id]

\* ORDER BY m.document_id
sort_by_document_id(rows) ==
    CHOOSE s \in Permutations_of(rows) :
        \A i, j \in DOMAIN s : i < j => s[i].document_id <= s[j].document_id

\* Persistence::select_all / select_by_id / select_by_id_list: the rows the
\* database returns for the statement bound to ids; an error when a table
\* of the statement does not exist
select(tables, query, ids) ==
    IF ~query.has_owning_column
    THEN IF query.from.name \notin DOMAIN tables.rows THEN Err
         ELSE Ok(sort_by_document_id(
                  {ResultRow(None, d) : d \in {d \in tables.rows[query.from.name] :
                                                  query.conditions = <<>> \/ d \in ids}}))
    ELSE IF \/ query.from.name \notin DOMAIN tables.links
            \/ \E j \in DOMAIN query.joins :
                   query.joins[j].join_table.name \notin DOMAIN tables.rows
         THEN Err
         ELSE Ok(sort_by_document_id(
                  {ResultRow(Some(l[1]), l[2]) :
                      l \in {l \in tables.links[query.from.name] :
                                /\ l[1] \in ids
                                /\ \A j \in DOMAIN query.joins :
                                       l[2] \in tables.rows[query.joins[j].join_table.name]}}))

\* DocumentRowResponse::from(row), with_relations
DocumentRowResponse(r) == [document_id |-> r.document_id, relations |-> EmptyMap]
with_relations(entity, populated) == [entity EXCEPT !.relations = populated]

\* result_set_into_document_response
result_set_into_document_response(result_set) ==
    [i \in DOMAIN result_set |-> DocumentRowResponse(result_set[i])]

\* Itertools::chunk_by: runs of consecutive rows of one owning id
RECURSIVE chunk_by(_)
chunk_by(pairs) ==
    IF pairs = <<>> THEN <<>>
    ELSE LET rest == chunk_by(Tail(pairs))
             first == Head(pairs)
         IN  IF rest # <<>> /\ rest[1].owning_id = first.owning_id
             THEN <<[owning_id |-> first.owning_id, rows |-> <<first.row>> \o rest[1].rows]>>
                  \o Tail(rest)
             ELSE <<[owning_id |-> first.owning_id, rows |-> <<first.row>>]>> \o rest

\* result_set_into_groped_document_response
result_set_into_groped_document_response(result_set) ==
    LET owned == SelectSeq(result_set, LAMBDA r : r.owning_id.some)
    IN  chunk_by([i \in DOMAIN owned |->
                     [owning_id |-> owned[i].owning_id.value,
                      row |-> DocumentRowResponse(owned[i])]])

\* EitherOrBoth of itertools
Both(left, right) == [kind |-> "Both", left |-> <<left>>, right |-> <<right>>]
Left(left) == [kind |-> "Left", left |-> <<left>>, right |-> <<>>]
Right(right) == [kind |-> "Right", left |-> <<>>, right |-> <<right>>]

\* as merge_join_by, but pairing the rows by position, whatever their keys
RECURSIVE merge_join_by_position(_, _)
merge_join_by_position(left, right) ==
    IF left = <<>> THEN [i \in DOMAIN right |-> Right(right[i])]
    ELSE IF right = <<>> THEN [i \in DOMAIN left |-> Left(left[i])]
    ELSE <<Both(Head(left), Head(right))>>
             \o merge_join_by_position(Tail(left), Tail(right))

\* Itertools::merge_join_by(left, right, |a, (b, _)| a.document_id.cmp(b)):
\* the heads are compared; the lesser one is emitted alone, equal ones
\* together
RECURSIVE merge_join_by(_, _)
merge_join_by(left, right) ==
    IF left = <<>> THEN [i \in DOMAIN right |-> Right(right[i])]
    ELSE IF right = <<>> THEN [i \in DOMAIN left |-> Left(left[i])]
    ELSE IF Head(left).document_id < Head(right).owning_id
         THEN <<Left(Head(left))>> \o merge_join_by(Tail(left), right)
    ELSE IF Head(left).document_id = Head(right).owning_id
         THEN <<Both(Head(left), Head(right))>> \o merge_join_by(Tail(left), Tail(right))
    ELSE <<Right(Head(right))>> \o merge_join_by(left, Tail(right))

\* the loop of join_relations over the joined items: Both is the entity with
\* its relations, Left the entity as it is, Right is printed and dropped
RECURSIVE enriched_documents(_)
enriched_documents(joined_items) ==
    IF joined_items = <<>> THEN <<>>
    ELSE LET item == Head(joined_items)
             rest == enriched_documents(Tail(joined_items))
         IN  IF item.kind = "Both"
             THEN <<with_relations(item.left[1], item.right[1].populated)>> \o rest
             ELSE IF item.kind = "Left" THEN <<item.left[1]>> \o rest
             ELSE rest

\* join_relations: transposed_map[owning_id][attribute_id] is the rows of the
\* last group of that owner (HashMap::insert replaces); the map's entries are
\* sorted by owning id and merge-joined with main by document_id
join_relations(main, relations) ==
    LET groups_of(a, o) == {i \in DOMAIN relations[a] : relations[a][i].owning_id = o}
        last(S) == CHOOSE i \in S : \A j \in S : j <= i
        all_owners == UNION {{relations[a][i].owning_id : i \in DOMAIN relations[a]} :
                                a \in DOMAIN relations}
        transposed_map ==
            [o \in all_owners |->
                [a \in {a \in DOMAIN relations : groups_of(a, o) # {}} |->
                    relations[a][last(groups_of(a, o))].rows]]
        transposed ==
            CHOOSE s \in Permutations_of({[owning_id |-> o, populated |-> transposed_map[o]] :
                                              o \in all_owners}) :
                \A i, j \in DOMAIN s : i < j => s[i].owning_id < s[j].owning_id
    IN  enriched_documents(merge_join_by(main, transposed))

\* the requests considered: both handlers, a registered, an unregistered and
\* an ineligible document id, populate absent or naming up to MaxPopulate
\* attributes (owning, inverse, nonexistent, ineligible)
MaxPopulate == 2

S_Articles_raw == <<" ", "A", "r", "t", "i", "c", "l", "e", "s">>

PopulateNames == {S_articles, S_Articles_raw, S_parent, S_links, S_ghost, S_bad_id}

Requests ==
    { r \in { [present |-> TRUE, handler |-> h, document_id |-> d, id |-> i,
               populate |-> p, pagination |-> g] :
                 h \in {"find_document_by_id", "find_all_documents"},
                 d \in {S_author, S_page, S_ghost, S_bad_id},
                 i \in {1, 2},
                 p \in {None} \cup {Some(names) : names \in
                           {n \in SUBSET PopulateNames : Cardinality(n) <= MaxPopulate}},
                 g \in BOOLEAN } :
        \* find_all_documents takes no id; its pagination is left at the default
        r.handler = "find_all_documents" => (r.id = 1 /\ ~r.pagination) }

ServiceInit ==
    /\ JoinIdle
    /\ LifecycleIdle
    /\ DeriveIdle
    /\ RegistryIdle
    /\ SqlIdle
    /\ MigrationIdle
    /\ IdIdle
    /\ QueryIdle
    /\ DecodeIdle
    /\ svc_pc = "start"
    /\ app_state = [documents |-> {}]
    /\ store \in StoreUniverse
    /\ request = NoRequest
    /\ handler = HandlerIdle
    /\ executed = <<>>
    /\ response = NoResponse

\* main(): load_documents(&settings.schema_config_path)?
ServiceLoadDocuments ==
    /\ svc_pc = "start"
    /\ \E entries \in Permutations_of(ServiceFiles) :
          LET loaded == load_documents(entries)
          IN  IF loaded.ok
              THEN /\ app_state' = [documents |-> loaded.value]
                   /\ svc_pc' = "loaded"
              ELSE /\ app_state' = app_state
                   /\ svc_pc' = "failed"
    /\ UNCHANGED <<store, request, handler, executed, response>>
    /\ UNCHANGED outside_service

\* main(): database::connect(&settings.database).await?
Connect ==
    /\ svc_pc = "loaded"
    /\ svc_pc' \in {"connected", "failed"}
    /\ UNCHANGED <<app_state, store, request, handler, executed, response>>
    /\ UNCHANGED outside_service

\* main(): HttpServer::new(state, server_config).await?.run()
RunServer ==
    /\ svc_pc = "connected"
    /\ svc_pc' = "serving"
    /\ UNCHANGED <<app_state, store, request, handler, executed, response>>
    /\ UNCHANGED outside_service

document_metadata_of(req) ==
    PersistedDocument_new(get_document(app_state.documents, try_new(req.document_id).value).value)

\* a handler is entered: the checks before its first statement
ReceiveRequest ==
    /\ svc_pc = "serving"
    /\ handler.pc \in {"idle", "done"}
    /\ \E req \in Requests :
          /\ request' = req
          /\ executed' = <<>>
          /\ IF req.handler = "find_document_by_id" /\ req.pagination
             THEN /\ response' = ApiError("UnprocessableEntity")
                  /\ handler' = [pc |-> "done"]
             ELSE IF ~try_new(req.document_id).ok
             THEN /\ response' = ApiError("UnprocessableEntity")
                  /\ handler' = [pc |-> "done"]
             ELSE IF ~get_document(app_state.documents, try_new(req.document_id).value).ok
             THEN /\ response' = ApiError("NotFound")
                  /\ handler' = [pc |-> "done"]
             ELSE /\ response' = NoResponse
                  /\ handler' = [pc |-> "main_fetch"]
    /\ UNCHANGED <<svc_pc, app_state, store>>
    /\ UNCHANGED outside_service

\* persistence.select_by_id(query, id) / persistence.select_all(query), then
\* result_set_into_document_response
MainFetch ==
    /\ handler.pc = "main_fetch"
    /\ LET document_metadata == document_metadata_of(request)
           query == IF request.handler = "find_document_by_id"
                    THEN find_by_document_id(QueryBuilder_from(document_metadata))
                    ELSE QueryBuilder_from(document_metadata)
           result_set == select(store, query, {request.id})
       IN  /\ executed' = Append(executed, query)
           /\ IF ~result_set.ok
              THEN /\ response' = ApiError("InternalServerError")
                   /\ handler' = [pc |-> "done"]
              ELSE /\ response' = response
                   /\ handler' =
                          [pc |-> IF request.populate.some THEN "populate" ELSE "respond",
                           data |-> result_set_into_document_response(result_set.value),
                           relations_to_populate |->
                               IF request.populate.some THEN request.populate.value ELSE {},
                           populated_relations |-> EmptyMap]
    /\ UNCHANGED <<svc_pc, app_state, store, request>>
    /\ UNCHANGED outside_service

\* one turn of the loop over relations_to_populate, a HashSet<String>
PopulateRelation ==
    /\ handler.pc = "populate"
    /\ \E relation_to_populate \in handler.relations_to_populate :
          LET document_metadata == document_metadata_of(request)
              attribute_id == try_new(relation_to_populate)
          IN  IF ~attribute_id.ok
              THEN /\ response' = ApiError("UnprocessableEntity")
                   /\ handler' = [pc |-> "done"]
                   /\ executed' = executed
              ELSE IF attribute_id.value \notin DOMAIN document_metadata.relations
              THEN /\ response' = ApiError("UnprocessableEntity")
                   /\ handler' = [pc |-> "done"]
                   /\ executed' = executed
              ELSE LET relation == document_metadata.relations[attribute_id.value]
                       related_document_metadata ==
                           get_persisted_document_by_ref(app_state.documents, relation.target)
                       query == with_owning_id(
                                    from_relation(document_metadata, relation,
                                                  related_document_metadata),
                                    document_metadata.details.relation_column_name)
                       ids == IF request.handler = "find_document_by_id"
                              THEN {request.id}
                              ELSE {handler.data[i].document_id : i \in DOMAIN handler.data}
                       related_result_set == select(store, query, ids)
                   IN  /\ executed' = Append(executed, query)
                       /\ IF ~related_result_set.ok
                          THEN /\ response' = ApiError("InternalServerError")
                               /\ handler' = [pc |-> "done"]
                          ELSE /\ response' = response
                               /\ handler' =
                                      [handler EXCEPT
                                          !.relations_to_populate = @ \ {relation_to_populate},
                                          !.populated_relations =
                                              HashMap_insert(@, attribute_id.value,
                                                  result_set_into_groped_document_response(
                                                      related_result_set.value)),
                                          !.pc = IF handler.relations_to_populate
                                                       = {relation_to_populate}
                                                 THEN "respond" ELSE "populate"]
    /\ UNCHANGED <<svc_pc, app_state, store, request>>
    /\ UNCHANGED outside_service

\* data = join_relations(data, populated_relations) and the response
Respond ==
    /\ handler.pc = "respond"
    /\ LET data == IF request.populate.some
                   THEN join_relations(handler.data, handler.populated_relations)
                   ELSE handler.data
       IN  /\ response' = IF request.handler = "find_document_by_id" /\ data = <<>>
                          THEN ApiError("NotFound")
                          ELSE ApiSuccess(data)
           /\ handler' = [handler EXCEPT !.pc = "done", !.data = data]
    /\ UNCHANGED <<svc_pc, app_state, store, request, executed>>
    /\ UNCHANGED outside_service

ServiceNext ==
    \/ ServiceLoadDocuments
    \/ Connect
    \/ RunServer
    \/ ReceiveRequest
    \/ MainFetch
    \/ PopulateRelation
    \/ Respond

ServiceSpec == ServiceInit /\ [][ServiceNext]_vars

(***************************************************************************)
(* The composable QueryBuilder of infrastructure/persistence/query.rs:     *)
(* where_condition() calls, then build().                                  *)
(***************************************************************************)
MaxConditions == 2

DIGIT_CHARS == <<"0","1","2","3","4","5","6","7","8","9">>

\* format!("{}", n) of an unsigned integer
RECURSIVE usize_to_string(_)
usize_to_string(n) ==
    IF n < 10 THEN <<DIGIT_CHARS[n + 1]>>
    ELSE usize_to_string(n \div 10) \o <<DIGIT_CHARS[(n % 10) + 1]>>

Table(name, alias) == [name |-> name, alias |-> alias]

\* Table::qualified
Table_qualified(table) ==
    <<"\"">> \o table.name \o <<"\"", " ", "A", "S", " ", "\"">> \o table.alias \o <<"\"">>

\* Column::qualified
Column_qualified(column) ==
    <<"\"">> \o column.qualifier \o <<"\"", ".", "\"">> \o column.name \o <<"\"">>

ConditionValue_Text(s) == [kind |-> "Text", text |-> s, int |-> 0, bool |-> FALSE]
ConditionValue_Integer(i) == [kind |-> "Integer", text |-> <<>>, int |-> i, bool |-> FALSE]
ConditionValue_Boolean(b) == [kind |-> "Boolean", text |-> <<>>, int |-> 0, bool |-> b]
ConditionValue_Null == [kind |-> "Null", text |-> <<>>, int |-> 0, bool |-> FALSE]

SqlParameter_Text(s) == [kind |-> "Text", text |-> s, int |-> 0, bool |-> FALSE]
SqlParameter_Integer(i) == [kind |-> "Integer", text |-> <<>>, int |-> i, bool |-> FALSE]
SqlParameter_Boolean(b) == [kind |-> "Boolean", text |-> <<>>, int |-> 0, bool |-> b]
SqlParameter_Null == [kind |-> "Null", text |-> <<>>, int |-> 0, bool |-> FALSE]

\* impl From<&ConditionValue> for SqlParameter
SqlParameter_from(value) ==
    CASE value.kind = "Text" -> SqlParameter_Text(value.text)
      [] value.kind = "Integer" -> SqlParameter_Integer(value.int)
      [] value.kind = "Boolean" -> SqlParameter_Boolean(value.bool)
      [] value.kind = "Null" -> SqlParameter_Null

\* the field named value holds a ConditionValue in Equals, an i64 in the four
\* comparisons and a String in Contains: one record field per type
Condition_Equals(column, value) == [kind |-> "Equals", column |-> column, value |-> value]
Condition_GreaterThan(column, value) == [kind |-> "GreaterThan", column |-> column, i64 |-> value]
Condition_LessThan(column, value) == [kind |-> "LessThan", column |-> column, i64 |-> value]
Condition_GreaterThanOrEqual(column, value) ==
    [kind |-> "GreaterThanOrEqual", column |-> column, i64 |-> value]
Condition_LessThanOrEqual(column, value) ==
    [kind |-> "LessThanOrEqual", column |-> column, i64 |-> value]
Condition_Contains(column, value) == [kind |-> "Contains", column |-> column, string |-> value]
Condition_In(column, values) == [kind |-> "In", column |-> column, values |-> values]
Condition_IsNull(column) == [kind |-> "IsNull", column |-> column]
Condition_IsNotNull(column) == [kind |-> "IsNotNull", column |-> column]
Condition_Or(left, right) == [kind |-> "Or", left |-> left, right |-> right]

\* the comparison operators of the one-value conditions
operator_of(kind) ==
    CASE kind = "Equals" -> <<"=">>
      [] kind = "GreaterThan" -> <<">">>
      [] kind = "LessThan" -> <<"<">>
      [] kind = "GreaterThanOrEqual" -> <<">", "=">>
      [] kind = "LessThanOrEqual" -> <<"<", "=">>
      [] kind = "Contains" -> <<"I", "L", "I", "K", "E">>

\* the values.iter().map(..) of Condition::In: one placeholder per value,
\* each taking the counter and advancing it
in_placeholders(values, param_counter) ==
    [i \in DOMAIN values |-> <<"$">> \o usize_to_string(param_counter + i - 1)]

\* as to_sql, with the parameters of Or's right side put before the left's
RECURSIVE to_sql_right_params_first(_, _)
to_sql_right_params_first(condition, param_counter) ==
    CASE condition.kind \in {"Equals", "GreaterThan", "LessThan",
                             "GreaterThanOrEqual", "LessThanOrEqual", "Contains"} ->
           [sql |-> Column_qualified(condition.column) \o <<" ">>
                      \o operator_of(condition.kind) \o <<" ", "$">>
                      \o usize_to_string(param_counter),
            params |-> <<CASE condition.kind = "Equals" -> SqlParameter_from(condition.value)
                           [] condition.kind = "Contains" ->
                                SqlParameter_Text(<<"%">> \o condition.string \o <<"%">>)
                           [] OTHER -> SqlParameter_Integer(condition.i64)>>,
            param_counter |-> param_counter + 1]
      [] condition.kind = "In" ->
           [sql |-> Column_qualified(condition.column) \o <<" ", "I", "N", " ", "(">>
                      \o join(in_placeholders(condition.values, param_counter), <<",", " ">>)
                      \o <<")">>,
            params |-> [i \in DOMAIN condition.values |->
                            SqlParameter_from(condition.values[i])],
            param_counter |-> param_counter + Len(condition.values)]
      [] condition.kind = "IsNull" ->
           [sql |-> Column_qualified(condition.column)
                      \o <<" ", "I", "S", " ", "N", "U", "L", "L">>,
            params |-> <<>>, param_counter |-> param_counter]
      [] condition.kind = "IsNotNull" ->
           [sql |-> Column_qualified(condition.column)
                      \o <<" ", "I", "S", " ", "N", "O", "T", " ", "N", "U", "L", "L">>,
            params |-> <<>>, param_counter |-> param_counter]
      [] condition.kind = "Or" ->
           LET left == to_sql_right_params_first(condition.left, param_counter)
               right == to_sql_right_params_first(condition.right, left.param_counter)
           IN  [sql |-> <<"(">> \o left.sql \o <<" ", "O", "R", " ">> \o right.sql \o <<")">>,
                params |-> right.params \o left.params,
                param_counter |-> right.param_counter]

\* Condition::to_sql(&self, param_counter): the SQL text, the parameters and
\* the counter as the call leaves it
RECURSIVE to_sql(_, _)
to_sql(condition, param_counter) ==
    CASE condition.kind \in {"Equals", "GreaterThan", "LessThan",
                             "GreaterThanOrEqual", "LessThanOrEqual", "Contains"} ->
           [sql |-> Column_qualified(condition.column) \o <<" ">>
                      \o operator_of(condition.kind) \o <<" ", "$">>
                      \o usize_to_string(param_counter),
            params |-> <<CASE condition.kind = "Equals" -> SqlParameter_from(condition.value)
                           [] condition.kind = "Contains" ->
                                SqlParameter_Text(<<"%">> \o condition.string \o <<"%">>)
                           [] OTHER -> SqlParameter_Integer(condition.i64)>>,
            param_counter |-> param_counter + 1]
      [] condition.kind = "In" ->
           [sql |-> Column_qualified(condition.column) \o <<" ", "I", "N", " ", "(">>
                      \o join(in_placeholders(condition.values, param_counter), <<",", " ">>)
                      \o <<")">>,
            params |-> [i \in DOMAIN condition.values |->
                            SqlParameter_from(condition.values[i])],
            param_counter |-> param_counter + Len(condition.values)]
      [] condition.kind = "IsNull" ->
           [sql |-> Column_qualified(condition.column)
                      \o <<" ", "I", "S", " ", "N", "U", "L", "L">>,
            params |-> <<>>, param_counter |-> param_counter]
      [] condition.kind = "IsNotNull" ->
           [sql |-> Column_qualified(condition.column)
                      \o <<" ", "I", "S", " ", "N", "O", "T", " ", "N", "U", "L", "L">>,
            params |-> <<>>, param_counter |-> param_counter]
      [] condition.kind = "Or" ->
           LET left == to_sql(condition.left, param_counter)
               right == to_sql(condition.right, left.param_counter)
           IN  [sql |-> <<"(">> \o left.sql \o <<" ", "O", "R", " ">> \o right.sql \o <<")">>,
                params |-> left.params \o right.params,
                param_counter |-> right.param_counter]

\* QueryBuilder::generate_where_conditions: the conditions in order, the
\* counter threaded through them, the texts joined with " AND "
RECURSIVE generate_where_conditions(_, _)
generate_where_conditions(conditions, param_counter) ==
    IF conditions = <<>> THEN [parts |-> <<>>, params |-> <<>>]
    ELSE LET first == to_sql(Head(conditions), param_counter)
             rest == generate_where_conditions(Tail(conditions), first.param_counter)
         IN  [parts |-> <<first.sql>> \o rest.parts,
              params |-> first.params \o rest.params]

\* QueryBuilder::build: no method of the builder sets joins, order_by, limit
\* or offset, so these clauses stay empty
QueryBuilder_build(from_table, select_columns, conditions) ==
    LET where == generate_where_conditions(conditions, 1)
    IN  [done |-> TRUE,
         sql |-> <<"S", "E", "L", "E", "C", "T", " ">>
                   \o join([i \in DOMAIN select_columns |->
                                Column_qualified(select_columns[i])], <<",", " ">>)
                   \o <<"\n", "F", "R", "O", "M", " ">> \o Table_qualified(from_table)
                   \o (IF conditions # <<>>
                       THEN <<"\n", "W", "H", "E", "R", "E", " ">>
                              \o join(where.parts, <<" ", "A", "N", "D", " ">>)
                       ELSE <<>>),
         params |-> IF conditions # <<>> THEN where.params ELSE <<>>]

S_partners == <<"p", "a", "r", "t", "n", "e", "r", "s">>
S_is_draft == <<"i", "s", "_", "d", "r", "a", "f", "t">>

SqlTable == Table(S_partners, <<"t">>)
SqlColumn(name) == ColumnRef(<<"t">>, name)

\* conditions without a nested condition
LeafConditions ==
    { Condition_Equals(SqlColumn(S_is_draft), ConditionValue_Boolean(FALSE)),
      Condition_Equals(SqlColumn(S_title), ConditionValue_Text(S_article)),
      Condition_Equals(SqlColumn(S_slug), ConditionValue_Null),
      Condition_GreaterThan(SqlColumn(S_views), 1),
      Condition_LessThan(SqlColumn(S_views), 2),
      Condition_GreaterThanOrEqual(SqlColumn(S_views), 3),
      Condition_LessThanOrEqual(SqlColumn(S_views), 4),
      Condition_Contains(SqlColumn(S_name), S_page),
      Condition_In(SqlColumn(S_views), <<>>),
      Condition_In(SqlColumn(S_views), <<ConditionValue_Integer(5)>>),
      Condition_In(SqlColumn(S_views),
                   <<ConditionValue_Integer(6), ConditionValue_Integer(7),
                     ConditionValue_Integer(8), ConditionValue_Integer(9)>>),
      Condition_IsNull(SqlColumn(S_slug)),
      Condition_IsNotNull(SqlColumn(S_slug)) }

\* the operands Or is composed of
OrOperands ==
    { Condition_Equals(SqlColumn(S_title), ConditionValue_Text(S_article)),
      Condition_Contains(SqlColumn(S_name), S_page),
      Condition_In(SqlColumn(S_views),
                   <<ConditionValue_Integer(6), ConditionValue_Integer(7),
                     ConditionValue_Integer(8), ConditionValue_Integer(9)>>),
      Condition_IsNull(SqlColumn(S_slug)) }

FlatOrs == {Condition_Or(l, r) : l \in OrOperands, r \in OrOperands}

NestedOrs ==
    {Condition_Or(Condition_Or(l, r), r) : l \in OrOperands, r \in OrOperands}
    \cup {Condition_Or(l, Condition_Or(l, r)) : l \in OrOperands, r \in OrOperands}

Conditions == LeafConditions \cup FlatOrs \cup NestedOrs

SqlInit ==
    /\ JoinIdle
    /\ LifecycleIdle
    /\ DeriveIdle
    /\ RegistryIdle
    /\ MigrationIdle
    /\ IdIdle
    /\ QueryIdle
    /\ DecodeIdle
    /\ ServiceIdle
    /\ where_conditions = <<>>
    /\ built = NotBuiltYet

\* builder.where_condition(condition)
WhereCondition ==
    /\ ~built.done
    /\ Len(where_conditions) < MaxConditions
    /\ \E condition \in Conditions :
           where_conditions' = Append(where_conditions, condition)
    /\ UNCHANGED built
    /\ UNCHANGED outside_sql

\* builder.select(vec![t."id"]).build(): build takes the builder by value
Build ==
    /\ ~built.done
    /\ built' = QueryBuilder_build(SqlTable, <<SqlColumn(ID_FIELD_NAME)>>, where_conditions)
    /\ UNCHANGED where_conditions
    /\ UNCHANGED outside_sql

SqlNext ==
    \/ WhereCondition
    \/ Build

SqlSpec == SqlInit /\ [][SqlNext]_vars

(***************************************************************************)
(* The registry of document types: DocumentTypesRegistryAdapter of         *)
(* common/src/infratructure/documents.rs, loaded and then read.            *)
(***************************************************************************)
RegistryRecords ==
    { DocumentRecord(S_article, S_article, S_articles, NoOptions,
          << FieldRecord(S_title, "Text", FALSE, TRUE, FALSE) >>),
      DocumentRecord(S_article, S_post, S_articles, Options(TRUE, <<S_en>>),
          << FieldRecord(S_name, "Text", FALSE, FALSE, TRUE) >>),
      DocumentRecord(S_blog_post, S_post, S_articles, NoOptions,
          << FieldRecord(S_title, "Text", FALSE, TRUE, FALSE) >>),
      DocumentRecord(S_page, S_page, S_pages, Options(FALSE, <<>>),
          << FieldRecord(S_slug, "Uid", TRUE, TRUE, FALSE) >>) }

RegistryIds == {S_article, S_blog_post, S_page, S_ghost}

\* HashSet<&DocumentType>::get(&Q): the element whose borrowed form equals
\* the key; DocumentType borrows as, is compared by and hashed by its id
HashSet_get(set, id) ==
    IF \E t \in set : t.id = id
    THEN Some(CHOOSE t \in set : t.id = id)
    ELSE None

\* as get, but answering with a held type whatever its id
DocumentTypesRegistry_get_any(set, id) ==
    IF set # {} THEN Some(CHOOSE t \in set : TRUE) ELSE None

\* DocumentTypesRegistryAdapter::get: types.get(id), then types.get(*idx)
DocumentTypesRegistry_get(set, id) ==
    LET idx == HashSet_get(set, id)
    IN  IF idx.some THEN HashSet_get(set, idx.value.id) ELSE None

\* DocumentTypesRegistryAdapter::iterate: types.iter().copied(), in an order
\* the HashSet decides
DocumentTypesRegistry_iterate(set) == Permutations_of(set)

RegistryInit ==
    /\ JoinIdle
    /\ LifecycleIdle
    /\ DeriveIdle
    /\ SqlIdle
    /\ MigrationIdle
    /\ IdIdle
    /\ QueryIdle
    /\ DecodeIdle
    /\ ServiceIdle
    /\ types = {}
    /\ reg_pc = "load"
    /\ got = NotCalled
    /\ yielded = NotCalled

\* the loop of DocumentTypesRegistryAdapter::load: types.insert(static_ref)
\* for the document of one more file
RegistryInsert ==
    /\ reg_pc = "load"
    /\ \E rec \in RegistryRecords :
           types' = HashSet_insert(types, DocumentType_try_from(rec).value)
    /\ UNCHANGED <<reg_pc, got, yielded>>
    /\ UNCHANGED outside_registry

\* Ok(Self { types }): from here on the registry is read only
RegistryLoaded ==
    /\ reg_pc = "load"
    /\ reg_pc' = "loaded"
    /\ UNCHANGED <<types, got, yielded>>
    /\ UNCHANGED outside_registry

\* registry.get(&id)
RegistryGet ==
    /\ reg_pc = "loaded"
    /\ \E id \in RegistryIds :
           got' = [called |-> TRUE, id |-> id, res |-> DocumentTypesRegistry_get(types, id)]
    /\ UNCHANGED <<types, reg_pc, yielded>>
    /\ UNCHANGED outside_registry

\* registry.iterate() run to its end; it can be called again
RegistryIterate ==
    /\ reg_pc = "loaded"
    /\ \E items \in DocumentTypesRegistry_iterate(types) :
           yielded' = [called |-> TRUE, items |-> items]
    /\ UNCHANGED <<types, reg_pc, got>>
    /\ UNCHANGED outside_registry

RegistryNext ==
    \/ RegistryInsert
    \/ RegistryLoaded
    \/ RegistryGet
    \/ RegistryIterate

RegistrySpec == RegistryInit /\ [][RegistryNext]_vars

(***************************************************************************)
(* Table derivation on its own: a schema directory is loaded and           *)
(* documents_into_tables derives the needed tables of the registry.        *)
(***************************************************************************)
MaxDeriveFiles == 2

S_note == <<"n", "o", "t", "e">>
S_notes == <<"n", "o", "t", "e", "s">>
S_tag == <<"t", "a", "g">>
S_tags == <<"t", "a", "g", "s">>
S_x == <<"x">>
S_published_hyphen_at == <<"p", "u", "b", "l", "i", "s", "h", "e", "d", "-", "a", "t">>

F_a_hyphen_b ==
    DocumentRecord(S_a_hyphen_b, S_a_hyphen_b, S_a_hyphen_b, NoOptions,
        << FieldRecord(S_title, "Text", FALSE, TRUE, FALSE) >>)

F_a_underscore_b ==
    DocumentRecord(S_a_underscore_b, S_a_underscore_b, S_a_underscore_b, NoOptions,
        << FieldRecord(S_a_hyphen_b, "Boolean", FALSE, FALSE, FALSE),
           FieldRecord(S_a_underscore_b, "Boolean", FALSE, FALSE, FALSE) >>)

F_note ==
    DocumentRecord(S_note, S_note, S_notes, Options(FALSE, <<S_en>>),
        << FieldRecord(DOCUMENT_ID_FIELD_NAME, "Integer", FALSE, FALSE, FALSE),
           FieldRecord(LOCALE_FIELD_NAME, "Text", FALSE, FALSE, TRUE) >>)

F_note_localization ==
    DocumentRecord(S_note \o LOCALIZATION_SUFFIX, S_note, S_notes, Options(TRUE, <<>>),
        << FieldRecord(S_published_hyphen_at, "DateTime", FALSE, FALSE, FALSE) >>)

F_tag ==
    DocumentRecord(S_tag, S_tag, S_tags, NoOptions,
        << FieldRecord(S_name, "Text", FALSE, TRUE, FALSE),
           RelationRecord(S_x, "HasMany", S_tag, FALSE) >>)

F_tag_x_relation ==
    DocumentRecord(S_tag \o <<"_">> \o S_x \o RELATION_SUFFIX, S_tag, S_tags, NoOptions,
        << FieldRecord(S_name, "Text", FALSE, TRUE, FALSE) >>)

DeriveFiles ==
    {F_article, F_page, F_a_hyphen_b, F_a_underscore_b, F_note, F_note_localization,
     F_tag, F_tag_x_relation}

DeriveInit ==
    /\ JoinIdle
    /\ LifecycleIdle
    /\ SqlIdle
    /\ RegistryIdle
    /\ MigrationIdle
    /\ IdIdle
    /\ QueryIdle
    /\ DecodeIdle
    /\ ServiceIdle
    /\ schema_files \in {fs \in SUBSET DeriveFiles : Cardinality(fs) <= MaxDeriveFiles}
    /\ loaded_documents = NoSchema
    /\ needed_tables = NotDerivedYet

\* load_documents(path)?, the entries in the order read_dir gives them
DeriveLoadDocuments ==
    /\ ~loaded_documents.loaded
    /\ \E entries \in Permutations_of(schema_files) :
           LET loaded == load_documents(entries)
           IN  /\ loaded.ok
               /\ loaded_documents' = [loaded |-> TRUE, value |-> loaded.value]
    /\ UNCHANGED <<schema_files, needed_tables>>
    /\ UNCHANGED outside_derive

\* migrate(): let needed_schema = documents_into_tables(self.documents)
DocumentsIntoTables ==
    /\ loaded_documents.loaded
    /\ ~needed_tables.done
    /\ \A d \in loaded_documents.value : ~PersistedDocument_panics(d, loaded_documents.value)
    /\ \E order \in IterationOrders(loaded_documents.value) :
           needed_tables' = [done |-> TRUE,
                             tables |-> documents_into_tables(loaded_documents.value, order)]
    /\ UNCHANGED <<schema_files, loaded_documents>>
    /\ UNCHANGED outside_derive

DeriveNext ==
    \/ DeriveLoadDocuments
    \/ DocumentsIntoTables

DeriveSpec == DeriveInit /\ [][DeriveNext]_vars

(***************************************************************************)
(* The lifecycle of a DocumentInstance (service/src/domain/document):      *)
(* publish() and unpublish() in any sequence.                              *)
(***************************************************************************)
MaxVersion == 4
I32_MAX == 2147483647

\* i32 += 1: past i32::MAX a build with overflow checks panics and a build
\* without them wraps
wrapping_add_one(v) == IF v = I32_MAX THEN (-I32_MAX) - 1 ELSE v + 1

DocumentInstance(publication_state, version) ==
    [present |-> TRUE, publication_state |-> publication_state, version |-> version]

\* as publish, whatever the state is
publish_in_any_state(self, user_id, now, overflow_checks) ==
    LET published == [self EXCEPT !.publication_state = Published(self.version, now, user_id)]
    IN  IF self.version = I32_MAX /\ overflow_checks
        THEN [res |-> "panic", self |-> published]
        ELSE [res |-> "Ok",
              self |-> [published EXCEPT !.version = wrapping_add_one(self.version)]]

\* DocumentInstance::publish(&mut self, user_id): the result and the
\* instance as the call leaves it
publish(self, user_id, now, overflow_checks) ==
    IF self.publication_state.state = "Draft"
    THEN LET published ==
                 [self EXCEPT !.publication_state = Published(self.version, now, user_id)]
         IN  IF self.version = I32_MAX /\ overflow_checks
             THEN [res |-> "panic", self |-> published]
             ELSE [res |-> "Ok",
                   self |-> [published EXCEPT !.version = wrapping_add_one(self.version)]]
    ELSE [res |-> "AlreadyPublished", self |-> self]

\* DocumentInstance::unpublish(&mut self)
unpublish(self, overflow_checks) ==
    IF self.publication_state.state = "Published"
    THEN LET draft == [self EXCEPT !.publication_state = Draft(self.version)]
         IN  IF self.version = I32_MAX /\ overflow_checks
             THEN [res |-> "panic", self |-> draft]
             ELSE [res |-> "Ok", self |-> [draft EXCEPT !.version = wrapping_add_one(self.version)]]
    ELSE [res |-> "AlreadyDraft", self |-> self]

\* Utc::now() at the calls, and the users that publish
NowValues == {10, 11}
UserIds == {None, Some("editor"), Some("admin")}

\* the instances the calls start from: DocumentInstance::new (version 1) or
\* a decoded row, whose version is any i32 the column holds
InitialInstances ==
    {DocumentInstance(state, version) :
        state \in {Draft(1), Published(1, 1, None), Published(2, 9, Some("editor"))},
        version \in {1, 2, I32_MAX - 1, I32_MAX}}

LifecycleInit ==
    /\ JoinIdle
    /\ SqlIdle
    /\ RegistryIdle
    /\ DeriveIdle
    /\ MigrationIdle
    /\ IdIdle
    /\ QueryIdle
    /\ DecodeIdle
    /\ ServiceIdle
    /\ instance \in InitialInstances
    /\ last_call = NoCall

\* the calls stop after a panic; an instance of the low versions is called
\* while its version is at most MaxVersion
CanCall ==
    /\ last_call.res # "panic"
    /\ (instance.version <= MaxVersion) = (instance.version < I32_MAX - 1 /\ instance.version >= 0)

\* instance.publish(user_id)
Publish ==
    /\ CanCall
    /\ \E user_id \in UserIds, now \in NowValues, overflow_checks \in BOOLEAN :
           LET call == publish(instance, user_id, now, overflow_checks)
           IN  /\ instance' = call.self
               /\ last_call' = [op |-> "publish", before |-> instance, res |-> call.res]
    /\ UNCHANGED outside_lifecycle

\* instance.unpublish()
Unpublish ==
    /\ CanCall
    /\ \E overflow_checks \in BOOLEAN :
           LET call == unpublish(instance, overflow_checks)
           IN  /\ instance' = call.self
               /\ last_call' = [op |-> "unpublish", before |-> instance, res |-> call.res]
    /\ UNCHANGED outside_lifecycle

LifecycleNext ==
    \/ Publish
    \/ Unpublish

LifecycleSpec == LifecycleInit /\ [][LifecycleNext]_vars

(***************************************************************************)
(* Joining: the related rows are grouped by owner and joined to the main   *)
(* rows                                                                    *)
(***************************************************************************)
MaxRelatedRows == 3

\* the ids of the main documents and of the related documents
OwnerIds == 1..3
RelatedIds == 1..2
JoinAttributes == {S_articles, S_tags}

\* the sequences of at most MaxRelatedRows distinct rows (attribute, owner,
\* related document), in any order
RelatedRowSequences(attributes) ==
    LET rows == attributes \X OwnerIds \X RelatedIds
    IN  UNION {{s \in [1..n -> rows] : \A i, j \in 1..n : s[i] = s[j] => i = j} :
                  n \in 0..MaxRelatedRows}

\* the result set of one attribute's relation query among the fetched rows
result_set_of(fetched, attribute) ==
    LET own == SelectSeq(fetched, LAMBDA r : r[1] = attribute)
    IN  [i \in DOMAIN own |-> ResultRow(Some(own[i][2]), own[i][3])]

\* the main result sets: distinct document ids in any order
MainResultSets ==
    UNION {{[i \in DOMAIN p |-> ResultRow(None, p[i])] : p \in Permutations_of(ids)} :
              ids \in SUBSET OwnerIds}

JoinInit ==
    /\ LifecycleIdle
    /\ SqlIdle
    /\ RegistryIdle
    /\ DeriveIdle
    /\ MigrationIdle
    /\ IdIdle
    /\ QueryIdle
    /\ DecodeIdle
    /\ ServiceIdle
    /\ main_rows \in MainResultSets
    /\ \E attributes \in SUBSET JoinAttributes \ {{}} :
           \E fetched \in RelatedRowSequences(attributes) :
               related_result_sets = [a \in attributes |-> result_set_of(fetched, a)]
    /\ grouped = NotGroupedYet
    /\ enriched = NotJoinedYet

\* populated_relations.insert(attribute_id,
\*     result_set_into_groped_document_response(related_rows)) per attribute
GroupRelated ==
    /\ ~grouped.done
    /\ grouped' = [done |-> TRUE,
                   relations |-> [a \in DOMAIN related_result_sets |->
                       result_set_into_groped_document_response(related_result_sets[a])]]
    /\ UNCHANGED <<main_rows, related_result_sets, enriched>>
    /\ UNCHANGED outside_join

\* join_relations(main, populated_relations)
JoinRelations ==
    /\ grouped.done
    /\ ~enriched.done
    /\ enriched' = [done |-> TRUE,
                    data |-> join_relations(result_set_into_document_response(main_rows),
                                            grouped.relations)]
    /\ UNCHANGED <<main_rows, related_result_sets, grouped>>
    /\ UNCHANGED outside_join

JoinNext ==
    \/ GroupRelated
    \/ JoinRelations

JoinSpec == JoinInit /\ [][JoinNext]_vars

(***************************************************************************)
(* Properties                                                              *)
(***************************************************************************)
\* the current run has planned (MigratePlan has acted)
Planned == step_i >= 1

\* the table a script leaves in an empty schema when all of it is applied
RECURSIVE apply_script(_, _)
apply_script(tables, ddls) ==
    IF ddls = <<>> THEN tables ELSE apply_script(pg_apply(tables, Head(ddls)), Tail(ddls))

script_image(ddls) == table_named(apply_script({}, ddls), ddls[1].table_name)

step_table_name(step) == step.ddls[1].table_name

RECURSIVE flatten_ddls(_)
flatten_ddls(steps) ==
    IF steps = <<>> THEN <<>> ELSE Head(steps).ddls \o flatten_ddls(Tail(steps))

IsPrinted_ddl(line) == line.printed = "ddl"

printed_ddls(lines) ==
    LET sel == SelectSeq(lines, IsPrinted_ddl)
    IN  [i \in DOMAIN sel |-> sel[i].ddl]

IsPrefix(s, t) == Len(s) <= Len(t) /\ SubSeq(t, 1, Len(s)) = s

\* C1: after a migrate() run that returned Ok, the next migrate() run on the
\* resulting database plans no migration step and executes no DDL.
C1_SecondRunPlansNothing ==
    (pc = "apply" /\ result.ok) => (migration_steps = <<>> /\ out = <<>>)

\* C2: a create step is planned for a needed table if and only if its name is
\* not in the introspected set of live table names; no statement that is
\* executed names a table of that set, and the open transaction leaves every
\* such table as the database holds it.
C2_CreateStepIffAbsent ==
    Planned =>
        /\ \A i \in DOMAIN needed_schema :
              (needed_schema[i].name \notin actual_schema)
              <=> (\E k \in DOMAIN migration_steps :
                      /\ migration_steps[k].ddls[1].kind = "CREATE TABLE"
                      /\ migration_steps[k].ddls[1].table_name = needed_schema[i].name)
        /\ \A l \in DOMAIN out :
              out[l].printed = "ddl" => out[l].ddl.table_name \notin actual_schema
        /\ \A t \in db : t.name \in actual_schema /\ tx.open => t \in tx.tables

\* C2 witness: a run ended Ok that created a table and left alone a needed
\* table that was live with columns of its own.
C2_Witness ==
    /\ Planned /\ pc = "done" /\ result.ok
    /\ migration_steps # <<>>
    /\ \E i \in DOMAIN needed_schema :
          /\ needed_schema[i].name \in actual_schema
          /\ LegacyTable(needed_schema[i].name) \in db

\* C3: at every moment of a run, and so when it ends for whatever reason, a
\* table of the database that bears the name of a planned step is the table
\* the whole script of such a step leaves: CREATE TABLE, every foreign key
\* and every index; no table holds only part of a script.
C3_NoPartialTable ==
    Planned =>
        \A k \in DOMAIN migration_steps :
            \A t \in db :
                t.name = step_table_name(migration_steps[k]) =>
                    \E m \in DOMAIN migration_steps :
                        /\ step_table_name(migration_steps[m]) = t.name
                        /\ t = script_image(migration_steps[m].ddls)

\* C3 witness: the run failed inside the script of its second or a later
\* step after that script's CREATE TABLE had been executed; the first step's
\* table is in the database, whole, and the failed step's table is absent.
C3_Witness ==
    /\ Planned /\ pc = "done" /\ ~result.ok
    /\ step_i >= 2 /\ ddl_j >= 2
    /\ Len(migration_steps[step_i].ddls) >= 2
    /\ script_image(migration_steps[1].ddls) \in db
    /\ ~table_exists(db, step_table_name(migration_steps[step_i]))

\* C4: scripts are applied one at a time in plan order: the statements sent
\* to the database are a prefix of the scripts of the plan laid end to end;
\* every step before the current one is applied and stays applied; when the
\* step_i-th script fails migrate() returns the error and no statement of a
\* later step has been sent.
C4_FailFastInOrder ==
    Planned =>
        /\ IsPrefix(printed_ddls(out), flatten_ddls(migration_steps))
        /\ \A m \in 1..(step_i - 1) :
              m <= Len(migration_steps) => script_image(migration_steps[m].ddls) \in db
        /\ (pc = "done" /\ ~result.ok) =>
              /\ step_i <= Len(migration_steps)
              /\ Len(printed_ddls(out)) <= Len(flatten_ddls(SubSeq(migration_steps, 1, step_i)))
              /\ \A m \in (step_i + 1)..Len(migration_steps) :
                    \A l \in DOMAIN out :
                        out[l].printed = "ddl" =>
                            out[l].ddl.table_name # step_table_name(migration_steps[m])

\* C4 witness: a run failed at a step that has an applied step before it and
\* a step after it that was never started.
C4_Witness ==
    /\ Planned /\ pc = "done" /\ ~result.ok
    /\ step_i >= 2 /\ step_i < Len(migration_steps)
    /\ script_image(migration_steps[1].ddls) \in db
    /\ ~table_exists(db, step_table_name(migration_steps[Len(migration_steps)]))

main_table_names == {TableDetails_from(d).main_table_name : d \in registry}

localization_table_names ==
    {TableDetails_from(d).localization_table_name : d \in {x \in registry : has_localization(x)}}

\* 1 for a main table, 2 for a localization table, 3 for a relation table
table_rank(table) ==
    IF table.name \in main_table_names THEN 1
    ELSE IF table.name \in localization_table_names THEN 2
    ELSE 3

\* C5 as stated: in the planned table list no localization table precedes a
\* main table and no relation table precedes a main or a localization table.
C5_MainThenLocalizationThenRelation ==
    Planned =>
        \A i, j \in DOMAIN needed_schema :
            i < j => table_rank(needed_schema[i]) <= table_rank(needed_schema[j])

\* C5 amended: in the planned table list every localization table comes
\* immediately after the main table of its own document type, and every
\* relation table comes after every main and every localization table.
C5_RelationTablesLast ==
    Planned =>
        /\ \A i \in DOMAIN needed_schema :
              table_rank(needed_schema[i]) = 2 =>
                  /\ i > 1
                  /\ table_rank(needed_schema[i - 1]) = 1
                  /\ needed_schema[i].name = needed_schema[i - 1].name \o LOCALIZATION_SUFFIX
        /\ \A i, j \in DOMAIN needed_schema :
              (table_rank(needed_schema[i]) = 3 /\ table_rank(needed_schema[j]) < 3) => j < i

\* C5 witness: a planned list in which a localization table stands before
\* the main table of another type and a relation table stands last.
C5_Witness ==
    /\ Planned
    /\ \E i, j \in DOMAIN needed_schema :
          /\ i < j
          /\ table_rank(needed_schema[i]) = 2
          /\ table_rank(needed_schema[j]) = 1
    /\ table_rank(needed_schema[Len(needed_schema)]) = 3

IsPrimaryKey(column) == column.primary_key

\* the script is the one C6 describes for the table
script_of(table, ddls) ==
    LET nfk == Len(table.foreign_keys)
        nidx == Len(table.indexes)
        pk == SelectSeq(table.columns, IsPrimaryKey)
    IN  /\ Len(ddls) = 1 + nfk + nidx
        /\ ddls[1].kind = "CREATE TABLE"
        /\ ddls[1].table_name = table.name
        /\ Len(ddls[1].column_defs) = Len(table.columns)
        /\ \A c \in DOMAIN table.columns : ddls[1].column_defs[c].name = table.columns[c].name
        /\ ddls[1].primary_key = [c \in DOMAIN pk |-> pk[c].name]
        /\ \A f \in 1..nfk :
              /\ ddls[1 + f].kind = "ALTER TABLE ADD CONSTRAINT FOREIGN KEY"
              /\ ddls[1 + f].table_name = table.foreign_keys[f].table_name
              /\ ddls[1 + f].columns = <<table.foreign_keys[f].column_name>>
              /\ ddls[1 + f].referenced_table_name = table.foreign_keys[f].referenced_table_name
              /\ ddls[1 + f].referenced_column_name = table.foreign_keys[f].referenced_column_name
              /\ ddls[1 + f].on_delete = "CASCADE"
        /\ \A x \in 1..nidx :
              /\ ddls[1 + nfk + x].kind = "CREATE INDEX"
              /\ ddls[1 + nfk + x].table_name = table.indexes[x].table_name
              /\ ddls[1 + nfk + x].columns = table.indexes[x].columns
              /\ ddls[1 + nfk + x].unique = table.indexes[x].unique

\* C6: the script of every planned table is one CREATE TABLE whose PRIMARY
\* KEY clause lists the primary_key columns in column order, then one ALTER
\* TABLE ... FOREIGN KEY ... ON DELETE CASCADE per foreign key in order, then
\* one CREATE INDEX per index in order: 1 + #foreign keys + #indexes statements.
C6_ScriptShape ==
    Planned =>
        \A k \in DOMAIN migration_steps :
            \E i \in DOMAIN needed_schema :
                /\ needed_schema[i].name = step_table_name(migration_steps[k])
                /\ script_of(needed_schema[i], migration_steps[k].ddls)

\* C6 witness: a plan with the script of a table of two foreign keys and two
\* indexes and the script of a table whose primary key has two columns.
C6_Witness ==
    /\ Planned
    /\ \E k \in DOMAIN migration_steps :
          /\ Len(migration_steps[k].ddls) = 5
          /\ migration_steps[k].ddls[3].kind = "ALTER TABLE ADD CONSTRAINT FOREIGN KEY"
          /\ migration_steps[k].ddls[4].kind = "CREATE INDEX"
    /\ \E k \in DOMAIN migration_steps : Len(migration_steps[k].ddls[1].primary_key) = 2

\* the relations of a loaded document type, as its PersistedDocument holds them
relations_of(document) == PersistedDocument_new(document).relations

tables_named(name) == {i \in DOMAIN needed_schema : needed_schema[i].name = name}

\* C7: derivation emits exactly one relation table for every HasOne or
\* HasMany relation of a document type and none for a BelongsToOne or
\* BelongsToMany relation; every relation table is the table of such a relation.
C7_OneTablePerOwningRelation ==
    Planned =>
        /\ \A d \in registry : \A r \in DOMAIN relations_of(d) :
              Cardinality(tables_named(relations_of(d)[r].relation_table_name))
                  = IF relations_of(d)[r].relation_type \in {"HasOne", "HasMany"} THEN 1 ELSE 0
        /\ \A i \in DOMAIN needed_schema :
              table_rank(needed_schema[i]) = 3 =>
                  \E d \in registry : \E r \in DOMAIN relations_of(d) :
                      /\ relations_of(d)[r].relation_type \in {"HasOne", "HasMany"}
                      /\ relations_of(d)[r].relation_table_name = needed_schema[i].name

\* C7 witness: tables derived from a type that has an owning and an inverse
\* relation.
C7_Witness ==
    /\ Planned
    /\ \E d \in registry : \E r1, r2 \in DOMAIN relations_of(d) :
          /\ relations_of(d)[r1].relation_type = "HasOne"
          /\ relations_of(d)[r2].relation_type = "BelongsToOne"
          /\ tables_named(relations_of(d)[r1].relation_table_name) # {}
          /\ tables_named(relations_of(d)[r2].relation_table_name) = {}

\* C8: two derivations from the same loaded set of document types give the
\* same list of tables, in the same order and with the same column order,
\* whatever the orders in which the set of types and the maps of fields and
\* relations of each type are iterated.
C8_DerivationDeterministic ==
    (pc = "apply") =>
        \A o1, o2 \in IterationOrders(registry) :
            documents_into_tables(registry, o1) = documents_into_tables(registry, o2)

\* C9: once the registry has been loaded successfully, the target of every
\* relation of every loaded document type is the id of a loaded type.
C9_TargetsResolveAfterLoad ==
    (pc \notin {"start", "load_error"}) =>
        \A d \in registry : \A i \in DOMAIN d.attributes :
            d.attributes[i].kind = "Relation" => get_document(registry, d.attributes[i].target).ok

\* C10: a directory in which two definition files yield the same document
\* type id after trimming and lower-casing does not load successfully.
C10_DuplicateIdFailsLoad ==
    (\E f1, f2 \in files :
        /\ f1 # f2
        /\ f1.is_json /\ f2.is_json
        /\ Document_try_from(f1).ok /\ Document_try_from(f2).ok
        /\ Document_try_from(f1).value.id = Document_try_from(f2).value.id)
    => pc \in {"start", "load_error"}

\* C11: in every document type of a successfully loaded registry no
\* AttributeId is a key of both the fields map and the relations map, also
\* when two attribute ids of the file differ only in case or whitespace.
C11_FieldAndRelationKeysDisjoint ==
    (pc \notin {"start", "load_error"}) =>
        \A d \in registry :
            DOMAIN PersistedDocument_new(d).fields
                \cap DOMAIN PersistedDocument_new(d).relations = {}

C13_NormalizedReplacesHyphens ==
    norm.called =>
        /\ Len(norm.value) = Len(ident.res.value)
        /\ \A i \in DOMAIN ident.res.value :
              norm.value[i] = IF ident.res.value[i] = "-" THEN "_" ELSE ident.res.value[i]
        /\ [i \in DOMAIN norm.value |-> IF norm.value[i] = "-" THEN "_" ELSE norm.value[i]]
              = norm.value

\* C13 witness: an identifier with a hyphen and another character was
\* normalized.
C13_Witness ==
    /\ norm.called
    /\ \E i, j \in DOMAIN ident.res.value :
          /\ ident.res.value[i] = "-"
          /\ ident.res.value[j] \notin {"-", "_"}

\* C14: the table the Query Builder reads for a document type, and the
\* junction table it reads for a relation of it, carry the names Table
\* Derivation gave them, whatever the type's id and singular_name are
C14_QueryTablesAreDerivedTables ==
    /\ (derived.done /\ main_query.built) =>
           TableNameProvider_table_name(main_query.query.from_table.name)
               = derived.tables.main_table.name
    /\ (derived.done /\ count_sql.built) =>
           count_sql.table = derived.tables.main_table.name
    /\ (derived.done /\ related_query.built
            /\ is_owning(schema_of(document_type).relations[related_query.relation].relation_type)) =>
           /\ \E i \in DOMAIN derived.tables.relation_tables :
                  derived.tables.relation_tables[i].name
                      = TableNameProvider_table_name(related_query.query.from_table.name)
           /\ \A j \in DOMAIN related_query.query.joins :
                  TableNameProvider_table_name(related_query.query.joins[j].target_table.name)
                      = derived.tables.main_table.name

\* the derived tables an alias of a query denotes: "m" is the main table of
\* the type, another alias the derived table a join of that alias targets
tables_denoted(query, alias) ==
    IF alias = query.from_table.alias THEN {derived.tables.main_table}
    ELSE {t \in Range(derived.tables.localization_table)
                   \cup Range(derived.tables.relation_tables) :
             \E j \in DOMAIN query.joins :
                 /\ query.joins[j].target_table.alias = alias
                 /\ TableNameProvider_table_name(query.joins[j].target_table.name) = t.name}

\* C15: every column reference the main fetch emits names a column that
\* exists in the derived table its alias denotes, and each localized field of
\* a type with localizations is selected from the derived localization
\* table, which the query joins
C15_MainFetchColumnsExist ==
    (derived.done /\ main_query.built) =>
        LET query == main_query.query
            document == schema_of(document_type)
        IN  /\ \A i \in DOMAIN query.select :
                   \E t \in tables_denoted(query, query.select[i].qualifier) :
                       \E k \in DOMAIN t.columns :
                           t.columns[k].name = query.select[i].name
            /\ \A id \in DOMAIN document.fields :
                   (document.fields[id].localized /\ has_localization(document)) =>
                       \E i \in DOMAIN query.select :
                           /\ query.select[i].name = normalized(id)
                           /\ \E t \in tables_denoted(query, query.select[i].qualifier) :
                                  t \in Range(derived.tables.localization_table)

\* C16: with draft_and_publish a row decodes to Draft{revision} when its
\* published_at is null and to Published{revision, published_at,
\* published_by} otherwise, revision being the row's revision in both cases;
\* without draft_and_publish every row decodes to Published with
\* published_at equal to the row's created_at
C16_PublicationStateFromRow ==
    (decoded.done /\ decoded.res.ok) =>
        LET publication == decoded.res.value.content.publication_state
        IN  IF has_draft_and_publish(schema_of(document_type))
            THEN /\ publication.revision = row.revision
                 /\ IF row.published_at.some
                    THEN /\ publication.state = "Published"
                         /\ publication.published_at = row.published_at.value
                         /\ publication.published_by = row.published_by
                    ELSE publication.state = "Draft"
            ELSE /\ publication.state = "Published"
                 /\ publication.published_at = row.created_at

\* the DomainValue variants that are values of a declared AttributeType
variants_of(attribute_type) ==
    IF attribute_type = "Uid" THEN {"Text", "Uuid"} ELSE {attribute_type}

\* C17: decoding a row yields a field map with exactly one entry per schema
\* field; the entry is Null when the column is SQL NULL and a value of the
\* field's declared AttributeType otherwise
C17_OneEntryPerField ==
    decoded.done =>
        /\ decoded.res.ok
        /\ LET fields == decoded.res.value.content.fields
               document == schema_of(document_type)
           IN  /\ Cardinality(DOMAIN fields) = Cardinality(DOMAIN document.fields)
               /\ \A id \in DOMAIN document.fields :
                      /\ normalized(id) \in DOMAIN fields
                      /\ fields[normalized(id)].variant = "Scalar"
                      /\ IF row.columns[normalized(id)].some
                         THEN fields[normalized(id)].value.tag
                                  \in variants_of(document.fields[id].attribute_type)
                         ELSE fields[normalized(id)].value.tag = "Null"

\* the related rows the database holds for an owner of the relation a
\* populate step fetched
related_rows_of(attribute_id, owner) ==
    LET relation == document_metadata_of(request).relations[attribute_id]
    IN  IF relation.relation_table_name \in DOMAIN store.links
        THEN {l[2] : l \in {l \in store.links[relation.relation_table_name] : l[1] = owner}}
        ELSE {}

\* C18: the mapping a batched relation fetch returns has an entry for every
\* requested owner id: an owner with k related rows maps to exactly those k
\* rows, an owner without related rows to an empty list
C18_EntryForEveryOwner ==
    (/\ request.present
     /\ request.handler = "find_all_documents"
     /\ handler.pc \in {"populate", "respond"}) =>
        \A attribute_id \in DOMAIN handler.populated_relations :
            \A k \in DOMAIN handler.data :
                LET owner == handler.data[k].document_id
                    groups == handler.populated_relations[attribute_id]
                    entries == {i \in DOMAIN groups : groups[i].owning_id = owner}
                IN  /\ Cardinality(entries) = 1
                    /\ \A i \in entries :
                           /\ {groups[i].rows[j].document_id : j \in DOMAIN groups[i].rows}
                                  = related_rows_of(attribute_id, owner)
                           /\ Len(groups[i].rows)
                                  = Cardinality(related_rows_of(attribute_id, owner))

\* the request passes the checks a handler makes before it looks at populate
RequestAccepted ==
    /\ request.present
    /\ ~(request.handler = "find_document_by_id" /\ request.pagination)
    /\ try_new(request.document_id).ok
    /\ get_document(app_state.documents, try_new(request.document_id).value).ok

\* populate names an attribute that is no relation of the document type, or
\* an inverse relation of it
NamesBadRelation ==
    /\ request.populate.some
    /\ \E name \in request.populate.value :
           LET attribute_id == try_new(name)
               relations == document_metadata_of(request).relations
           IN  \/ ~attribute_id.ok
               \/ attribute_id.value \notin DOMAIN relations
               \/ is_inverse(relations[attribute_id.value].relation_type)

\* C19: a find-by-id or find-all request whose populate names a nonexistent
\* or a non-owning relation is rejected with a validation error, and no SQL
\* statement of the request is executed, the main fetch included
C19_BadPopulateRejectedBeforeSql ==
    (RequestAccepted /\ NamesBadRelation) =>
        /\ executed = <<>>
        /\ handler.pc = "done" => response.status = "UnprocessableEntity"

\* C20: no read query is issued before the migration has finished
\* successfully in this startup: the HTTP server is not started, and no
\* statement executed, unless migrate() has returned Ok
C20_MigrationBeforeServing ==
    /\ svc_pc = "serving" => result = Success
    /\ executed # <<>> => result = Success

\* the numbers of the placeholders of an SQL text, left to right: a "$"
\* and the digits that follow it
RECURSIVE digits_value(_, _)
digits_value(s, acc) ==
    IF s # <<>> /\ Head(s) \in DIGITS
    THEN digits_value(Tail(s),
                      acc * 10 + (CHOOSE d \in 0..9 : DIGIT_CHARS[d + 1] = Head(s)))
    ELSE acc

placeholders_of(sql) ==
    LET positions == {i \in DOMAIN sql : sql[i] = "$"}
        nth(n) == CHOOSE p \in positions : Cardinality({q \in positions : q < p}) = n - 1
        digits_end(p) ==
            CHOOSE e \in p..Len(sql) :
                /\ \A k \in (p + 1)..e : sql[k] \in DIGITS
                /\ (e = Len(sql) \/ sql[e + 1] \notin DIGITS)
    IN  [n \in 1..Cardinality(positions) |->
             digits_value(SubSeq(sql, nth(n) + 1, digits_end(nth(n))), 0)]

\* the values a condition binds, in the order the condition is written
RECURSIVE values_meant(_)
values_meant(condition) ==
    CASE condition.kind = "Equals" -> <<condition.value>>
      [] condition.kind \in {"GreaterThan", "LessThan",
                             "GreaterThanOrEqual", "LessThanOrEqual"} ->
           <<ConditionValue_Integer(condition.i64)>>
      [] condition.kind = "Contains" ->
           <<ConditionValue_Text(<<"%">> \o condition.string \o <<"%">>)>>
      [] condition.kind = "In" -> condition.values
      [] condition.kind \in {"IsNull", "IsNotNull"} -> <<>>
      [] condition.kind = "Or" ->
           values_meant(condition.left) \o values_meant(condition.right)

RECURSIVE values_meant_all(_)
values_meant_all(conditions) ==
    IF conditions = <<>> THEN <<>>
    ELSE values_meant(Head(conditions)) \o values_meant_all(Tail(conditions))

\* C21: the SQL that build returns numbers its placeholders $1..$n, each
\* once and increasing left to right over all where-conditions, and the
\* parameter list has exactly n values, the i-th being the value written
\* for $i; IsNull and IsNotNull take no number.
C21_PlaceholdersMatchParameters ==
    built.done =>
        LET numbers == placeholders_of(built.sql)
            meant == values_meant_all(where_conditions)
        IN  /\ numbers = [i \in 1..Len(built.params) |-> i]
            /\ Len(built.params) = Len(meant)
            /\ \A i \in DOMAIN meant :
                   /\ built.params[i].kind = meant[i].kind
                   /\ built.params[i].text = meant[i].text
                   /\ built.params[i].int = meant[i].int
                   /\ built.params[i].bool = meant[i].bool

\* a query of two conditions, an Or with an In on one side among them, with
\* a two-digit placeholder
C21_Witness ==
    /\ built.done
    /\ Len(where_conditions) = 2
    /\ \E i \in DOMAIN where_conditions :
           /\ where_conditions[i].kind = "Or"
           /\ where_conditions[i].left.kind = "In"
           /\ where_conditions[i].right.kind = "IsNull"
    /\ Len(built.params) >= 10

C22_GetAndIterateOfHeldTypes ==
    /\ got.called =>
           IF \E t \in types : t.id = got.id
           THEN /\ got.res.some
                /\ got.res.value \in types
                /\ got.res.value.id = got.id
           ELSE ~got.res.some
    /\ yielded.called =>
           /\ \A t \in types :
                  Cardinality({i \in DOMAIN yielded.items : yielded.items[i] = t}) = 1
           /\ \A i \in DOMAIN yielded.items : yielded.items[i] \in types

\* C22: get(id) returns the held type whose id is id and None when no held
\* type has that id; iterate() yields every held type exactly once, again
\* on every call; neither call changes the registry.
C22_RegistryReads ==
    /\ [](C22_GetAndIterateOfHeldTypes)
    /\ [][reg_pc = "loaded" => types' = types]_vars

\* a loaded registry of three types; get found the one asked for and
\* iterate has run to its end
C22_Witness ==
    /\ reg_pc = "loaded"
    /\ Cardinality(types) = 3
    /\ got.called /\ got.res.some /\ got.id = S_article
    /\ yielded.called /\ Len(yielded.items) = 3

\* the table a step creates: the table of its CREATE TABLE statement
table_of_step(step) == step.ddls[1].table_name

\* C23: when a table script fails, the error migrate() returns identifies
\* the table whose script failed: the failure of the script of any other
\* table of the plan would have returned a different error.
C23_ErrorIdentifiesFailedTable ==
    (pc = "done" /\ ~result.ok /\ step_i \in DOMAIN migration_steps) =>
        \A k \in DOMAIN migration_steps :
            table_of_step(migration_steps[k]) # table_of_step(migration_steps[step_i]) =>
                Failure(result.error[2], migration_steps[k].ctx) # result

\* the kind of value a column of a ColumnType holds
value_kind_of(column_type) ==
    CASE column_type = "Text" -> "Text"
      [] column_type = "Uuid" -> "Uuid"
      [] column_type = "Integer" -> "Integer"
      [] column_type = "Decimal" -> "Decimal"
      [] column_type = "Date" -> "Date"
      [] column_type = "TimestampTZ" -> "DateTime"
      [] column_type = "Boolean" -> "Boolean"

\* C24: the kind of value the decoder produces for a field of an
\* AttributeType is the kind of the column type that table derivation gives
\* to that AttributeType (Uid and Text -> Text, Uuid -> Uuid, Integer ->
\* Integer, Decimal -> Decimal, Date -> Date, DateTime -> TimestampTZ,
\* Boolean -> Boolean).
C24_DecodedKindIsColumnKind ==
    (decoded.done /\ decoded.res.ok) =>
        LET fields == decoded.res.value.content.fields
            document == schema_of(document_type)
        IN  \A id \in DOMAIN document.fields :
                normalized(id) \in DOMAIN fields =>
                    fields[normalized(id)].value.tag \in
                        {"Null", value_kind_of(column_type_of(document.fields[id].attribute_type))}

\* the tables the foreign keys of a step's script reference
referenced_tables_of(step) ==
    {step.ddls[j].referenced_table_name :
        j \in {j \in DOMAIN step.ddls :
                  step.ddls[j].kind = "ALTER TABLE ADD CONSTRAINT FOREIGN KEY"}}

\* C25: while the script of a planned table is being applied, every table
\* that one of its foreign keys references is already in the database: it
\* was live before the run or an earlier step of the run created it.
C25_ReferencedTablesExist ==
    (pc = "apply" /\ tx.open) =>
        \A name \in referenced_tables_of(migration_steps[step_i]) :
            /\ table_exists(db, name)
            /\ \/ name \in actual_schema
               \/ \E k \in 1..(step_i - 1) : table_of_step(migration_steps[k]) = name

\* the script of a relation table is being applied; one of the tables it
\* references was created by an earlier step of this run
C25_Witness ==
    /\ pc = "apply" /\ tx.open
    /\ Cardinality(referenced_tables_of(migration_steps[step_i])) >= 1
    /\ \E name \in referenced_tables_of(migration_steps[step_i]) :
           /\ name \notin actual_schema
           /\ \E k \in 1..(step_i - 1) : table_of_step(migration_steps[k]) = name
    /\ \E j \in DOMAIN migration_steps[step_i].ddls :
           /\ migration_steps[step_i].ddls[j].kind = "CREATE TABLE"
           /\ migration_steps[step_i].ddls[j].table_name = S_page_links_relation

\* the positions of the columns of a table that bear a name
columns_named(table, name) == {k \in DOMAIN table.columns : table.columns[k].name = name}

\* C26: each field of a document type has exactly one column in the emitted
\* tables, in the main table when localized is false and in the
\* localization table when localized is true; no field is without a column,
\* whatever options.localizations is.
C26_OneColumnPerField ==
    derived.done =>
        LET document == PersistedDocument_new(document_of(document_type))
            main == derived.tables.main_table
            localization == derived.tables.localization_table
        IN  \A id \in DOMAIN document.fields :
                LET name == document.fields[id].table_column_name
                    in_main == Cardinality(columns_named(main, name))
                    in_localization ==
                        IF localization = <<>> THEN 0
                        ELSE Cardinality(columns_named(localization[1], name))
                IN  IF document.fields[id].localized
                    THEN in_main = 0 /\ in_localization = 1
                    ELSE in_main = 1 /\ in_localization = 0

\* C27: the names of all derived tables of a registry (main tables,
\* localization tables, relation tables) are pairwise distinct, so no two
\* create steps of a plan bear the same table name.
C27_TableNamesDistinct ==
    needed_tables.done =>
        \A i, j \in DOMAIN needed_tables.tables :
            i # j => needed_tables.tables[i].name # needed_tables.tables[j].name

\* C28: within every derived table the column names are pairwise distinct:
\* no field's column bears the name of a system column of its table
\* (document_id, created_at, updated_at, published_at, locale) or of the
\* column of another field of the same type.
C28_ColumnNamesDistinct ==
    needed_tables.done =>
        \A t \in DOMAIN needed_tables.tables :
            LET columns == needed_tables.tables[t].columns
            IN  \A i, j \in DOMAIN columns : i # j => columns[i].name # columns[j].name

\* C29: in any sequence of publish() and unpublish() calls, publish()
\* succeeds only when the state is Draft and unpublish() only when it is
\* Published; a call in the other state returns AlreadyPublished /
\* AlreadyDraft and leaves publication_state and audit.version as they were.
C29_LifecycleCalls ==
    /\ last_call.op = "publish" =>
           IF last_call.before.publication_state.state = "Draft"
           THEN last_call.res \in {"Ok", "panic"}
           ELSE /\ last_call.res = "AlreadyPublished"
                /\ instance.publication_state = last_call.before.publication_state
                /\ instance.version = last_call.before.version
    /\ last_call.op = "unpublish" =>
           IF last_call.before.publication_state.state = "Published"
           THEN last_call.res \in {"Ok", "panic"}
           ELSE /\ last_call.res = "AlreadyDraft"
                /\ instance.publication_state = last_call.before.publication_state
                /\ instance.version = last_call.before.version

\* a published instance, once unpublished and published again, refuses a
\* further publish()
C29_Witness ==
    /\ last_call.op = "publish"
    /\ last_call.res = "AlreadyPublished"
    /\ last_call.before.publication_state.state = "Published"
    /\ last_call.before.publication_state.revision = 3
    /\ instance.version = 4

\* the document ids of rows, in their order
document_ids_of(rows) == [i \in DOMAIN rows |-> rows[i].document_id]

\* related rows are in ascending order of their owning id
ascending_by_owner(rows) ==
    \A i, j \in DOMAIN rows : i < j => rows[i].owning_id.value <= rows[j].owning_id.value

\* the rows a returned document carries under an attribute: none when the
\* document has no entry for it
carried_under(document, attribute) ==
    IF attribute \in DOMAIN document.relations
    THEN document_ids_of(document.relations[attribute]) ELSE <<>>

\* the related rows of an attribute whose owning id is owner, as fetched
owned_by(attribute, owner) ==
    document_ids_of(SelectSeq(related_result_sets[attribute],
                              LAMBDA r : r.owning_id.value = owner))

\* the premise of C30: main rows ascending by document_id, each attribute's
\* related rows ascending by owning id
JoinInputsSorted ==
    /\ \A i, j \in DOMAIN main_rows :
           i < j => main_rows[i].document_id < main_rows[j].document_id
    /\ \A a \in DOMAIN related_result_sets : ascending_by_owner(related_result_sets[a])

====
